---- MODULE Spec2Model ----
(***************************************************************************)
(* A model of the lazy struct expansion of ion-rust                        *)
(* (src/lazy/expanded/struct.rs): LazyExpandedStruct, its iterator         *)
(* ExpandedStructIterator with the three-state field expansion machine,    *)
(* and find().  The macro evaluator, whose code is in                      *)
(* src/lazy/expanded/macro_evaluator.rs, is modelled as a LIFO stack of    *)
(* expansion frames.                                                       *)
(***************************************************************************)
EXTENDS Integers, Sequences, FiniteSets, TLC

VARIABLES
    struct,     \* the LazyExpandedStruct handle under test
    eager,      \* whether the evaluator pops a frame as soon as it yields its last value
    raw_after_error, \* what the raw source does when read again after it reported an error
    iterator,   \* Option<ExpandedStructIterator>: <<>> before iter(), <<it>> after
    emitted,    \* the results of the next() calls made so far, each with the source cursor
    found,      \* Option<result of find(name)>
    exprs_iterator, \* Option<FieldExprIterator>: <<>> before field_exprs(), <<it>> after
    yielded,    \* the results of the FieldExprIterator's next() calls, each with the source cursor
    other_iterator, \* Option<ExpandedStructIterator>: a second iter() of the same handle
    other_emitted,  \* the results of the second iterator's next() calls
    sequence,   \* the value expressions of the list or s-expression under test
    sequence_iterator, \* Option<expanded sequence iterator>
    produced    \* the results of the sequence iterator's next() calls, each with the source cursor

\* The state of the struct and sequence iteration.
expanding == <<struct, eager, raw_after_error, iterator, emitted, found, exprs_iterator, yielded,
               other_iterator, other_emitted, sequence, sequence_iterator, produced>>

VARIABLES
    context,    \* the encoding context: the symbol table and the macro table
    position,   \* the position of the reader the handle came from
    handle,     \* the value handle or field name being read
    reads       \* the results of the reads of the handle made so far

\* The state of reading a handle.
reading == <<context, position, handle, reads>>

\* No handle is being read.
ReadingIdle ==
    /\ context = <<>>
    /\ position = 0
    /\ handle = <<>>
    /\ reads = <<>>

VARIABLES
    consumes_trailing_nop, \* whether the buffer moves past NOP padding that nothing follows
    reader,     \* the LazyRawBinaryReader_1_1: its input buffer
    items,      \* the results of the reader's next() calls, each with the position after the call
    binary_struct,  \* the fields of the raw binary struct under test
    fields_iterator, \* Option<iterator of the raw binary struct>
    raw_fields  \* the results of the raw struct iterator's next() calls

\* The state of the raw binary reader and of the raw binary struct.
binary == <<consumes_trailing_nop, reader, items, binary_struct, fields_iterator, raw_fields>>

\* No binary stream is being read.
BinaryIdle ==
    /\ consumes_trailing_nop = FALSE
    /\ reader = <<>>
    /\ items = <<>>
    /\ binary_struct = <<>>
    /\ fields_iterator = <<>>
    /\ raw_fields = <<>>

VARIABLES
    macro_table, \* the user macro table of the encoding context
    the_macro,  \* Option<&Macro>: a macro handle taken from a macro table
    resolution  \* Option<the latest resolve call: what was resolved, against which table, the result>

\* The state of macro resolution.
macros == <<macro_table, the_macro, resolution>>

\* No macro is being resolved.
MacrosIdle ==
    /\ macro_table = <<>>
    /\ the_macro = <<>>
    /\ resolution = <<>>

VARIABLES
    operands,   \* Option<the two values of a comparison>
    equal       \* Option<what the comparison returned>

\* The state of a comparison of two values.
comparing == <<operands, equal>>

\* No values are being compared.
ComparingIdle ==
    /\ operands = <<>>
    /\ equal = <<>>

VARIABLES
    encoded,        \* the bytes of the body of a binary 1.1 list or s-expression
    consume_past_end, \* what ImmutableBuffer::consume does with more bytes than the buffer holds
    raw_iterator,   \* Option<RawBinarySequenceIterator_1_1>
    raw_yielded     \* what its next() calls returned, and the iterator after each call

\* The state of the iteration of a raw binary sequence.
sequences == <<encoded, consume_past_end, raw_iterator, raw_yielded>>

\* No raw binary sequence is being iterated.
SequencesIdle ==
    /\ encoded = <<>>
    /\ consume_past_end = "panics"
    /\ raw_iterator = <<>>
    /\ raw_yielded = <<>>

VARIABLES
    parent_buffer,  \* the buffer a binary 1.1 container writer was given
    parent_before,  \* what that buffer held when the writer was made
    the_writer,     \* Option<BinaryListWriter_1_1 | BinarySExpWriter_1_1 | BinaryStructWriter_1_1>
    writes,         \* the values and fields written through the writer
    closed          \* the writer was closed

\* The state of a binary 1.1 container writer.
writing == <<parent_buffer, parent_before, the_writer, writes, closed>>

\* No container is being written.
WritingIdle ==
    /\ parent_buffer = <<>>
    /\ parent_before = <<>>
    /\ the_writer = <<>>
    /\ writes = <<>>
    /\ closed = FALSE

VARIABLES
    serde_role,     \* "value": the input is serialized as a value; "key": as the key of a map
    serde_input,    \* Option<the value handed to the serializer>
    serialized      \* Option<what the serializer returned>

\* The state of a serialization.
serializing == <<serde_role, serde_input, serialized>>

\* Nothing is being serialized.
SerializingIdle ==
    /\ serde_role = "value"
    /\ serde_input = <<>>
    /\ serialized = <<>>

\* The state outside of the struct and sequence iteration.
others == <<reading, binary, macros, comparing, sequences, writing, serializing>>

OthersIdle == ReadingIdle /\ BinaryIdle /\ MacrosIdle /\ ComparingIdle /\ SequencesIdle /\ WritingIdle /\ SerializingIdle

vars == <<expanding, others>>

(***************************************************************************)
(* Bounds of the model.                                                    *)
(***************************************************************************)
MaxFields == 3      \* field expressions (or make_struct arguments) of the struct under test
MaxTerminals == 2   \* next() calls that returned None or an error, after which no more are made

RECURSIVE SeqsUpTo(_, _)
SeqsUpTo(S, n) ==
    IF n = 0 THEN {<<>>}
    ELSE LET shorter == SeqsUpTo(S, n - 1)
         IN  shorter \cup {Append(s, x) : s \in {t \in shorter : Len(t) = n - 1}, x \in S}

RECURSIVE Flatten(_)
Flatten(seqs) == IF seqs = <<>> THEN <<>> ELSE Head(seqs) \o Flatten(Tail(seqs))

IsPrefix(s, t) == Len(s) <= Len(t) /\ SubSeq(t, 1, Len(s)) = s

(***************************************************************************)
(* Values and expressions.                                                 *)
(***************************************************************************)
\* An expanded value: a scalar or a struct handle.
IntValue(i) == [type |-> "Int", int |-> i]
StructValue(s) == [type |-> "Struct", struct |-> s]

\* ValueExpr: a value position, literal or macro invocation.
ValueLiteral(v) == [expr |-> "ValueLiteral", value |-> v]
MacroInvocation(m) == [expr |-> "MacroInvocation", invocation |-> m]

\* FieldExpr: the three field representations.
NameValue(n, v) == [field |-> "NameValue", name |-> n, value |-> v]
NameMacro(n, m) == [field |-> "NameMacro", name |-> n, invocation |-> m]
EExp(m) == [field |-> "EExp", invocation |-> m]

\* A field the raw source cannot hand out: its next() returns Some(Err(e)).
RawError(e) == [field |-> "Error", err |-> e]

\* LazyExpandedField
LazyExpandedField(n, v) == [name |-> n, value |-> v]
to_field_expr(f) == NameValue(f.name, f.value)

\* ExpandedStructSource, the four ways a struct handle is backed.
from_literal(fields) == [source |-> "ValueLiteral", fields |-> fields]
from_template(fields) == [source |-> "Template", fields |-> fields]
from_make_struct(arguments) == [source |-> "MakeStruct", arguments |-> arguments]
from_make_field(f) == [source |-> "MakeField", the_field |-> f]

\* Macro invocations of the system macros the struct code is written around.
values(args) == [macro |-> "values", args |-> args]
make_struct(args) == [macro |-> "make_struct", args |-> args]
make_field(n, v) == [macro |-> "make_field", fname |-> n, fvalue |-> v]

\* An invocation whose arguments do not fit its macro's signature.
malformed == [macro |-> "malformed"]

(***************************************************************************)
(* The macro evaluator: a LIFO stack of expansion frames, top = last.      *)
(***************************************************************************)
ValueNone == [r |-> "None"]
ValueSome(v) == [r |-> "Value", value |-> v]
Failure(e) == [r |-> "Err", err |-> e]

MacroEvaluator_new == <<>>

\* The results that are an Err(e).
is_err(x) == "r" \in DOMAIN x /\ x.r = "Err"

\* invocation.expand(): the frame that will produce the invocation's values,
\* or the decoding error of an invocation that cannot be expanded.
expand(invocation) ==
    CASE invocation.macro = "malformed" -> Failure("invalid macro invocation")
      [] invocation.macro = "values" ->
            [macro |-> "values", rest |-> invocation.args]
      [] invocation.macro = "make_struct" ->
            [macro |-> "make_struct",
             rest |-> <<ValueLiteral(StructValue(from_make_struct(invocation.args)))>>]
      [] invocation.macro = "make_field" ->
            [macro |-> "make_field",
             rest |-> <<ValueLiteral(StructValue(from_make_field(
                          LazyExpandedField(invocation.fname, invocation.fvalue))))>>]

\* expansion_analysis().must_produce_exactly_one_value()
must_produce_exactly_one_value(invocation) ==
    invocation.macro \in {"make_struct", "make_field"}

\* expansion.expand_singleton(): the one value, computed without a frame.
expand_singleton(expansion) == Head(expansion.rest).value

push(evaluator, expansion) == Append(evaluator, expansion)

is_empty(evaluator) == evaluator = <<>>

RECURSIVE pop_exhausted(_)
pop_exhausted(evaluator) ==
    IF evaluator = <<>> THEN evaluator
    ELSE IF evaluator[Len(evaluator)].rest = <<>>
         THEN pop_exhausted(SubSeq(evaluator, 1, Len(evaluator) - 1))
         ELSE evaluator

\* MacroEvaluator::next(): the next value across the whole stack.
RECURSIVE evaluator_next(_)
evaluator_next(evaluator) ==
    IF evaluator = <<>> THEN [evaluator |-> evaluator, result |-> ValueNone]
    ELSE LET n == Len(evaluator)
             top == evaluator[n]
         IN  IF top.rest = <<>>
             THEN evaluator_next(SubSeq(evaluator, 1, n - 1))
             ELSE LET e == Head(top.rest)
                      advanced == [evaluator EXCEPT ![n].rest = Tail(@)]
                  IN  IF e.expr = "ValueLiteral"
                      THEN [evaluator |-> IF eager THEN pop_exhausted(advanced) ELSE advanced,
                            result |-> ValueSome(e.value)]
                      ELSE IF is_err(expand(e.invocation))
                      THEN [evaluator |-> advanced, result |-> expand(e.invocation)]
                      ELSE evaluator_next(push(advanced, expand(e.invocation)))

(***************************************************************************)
(* ExpandedStructIterator: its source and its state.                       *)
(***************************************************************************)
\* ExpandedStructIteratorState
ReadingFieldFromSource == [s |-> "ReadingFieldFromSource"]
ExpandingValueExpr(field_name) == [s |-> "ExpandingValueExpr", field_name |-> field_name]
InliningAStruct(struct_iter) == [s |-> "InliningAStruct", struct_iter |-> struct_iter]

\* Results of a next() call and of a read of the source.
FieldNone == [r |-> "None"]
FieldSome(n, v) == [r |-> "Field", name |-> n, value |-> v]
ExprSome(f) == [r |-> "Expr", expr |-> f]
Panic == [r |-> "Panic"]

\* ExpandedStructIteratorSource: `exprs` is what the source has not yet
\* handed out (field expressions, the make_field field, or the make_struct
\* arguments), `cursor` counts what it has handed out, `current` is the
\* make_struct source's Option<ExpandedStructIterator>.
ExpandedStructIteratorSource(kind, evaluator, exprs) ==
    [kind |-> kind, evaluator |-> evaluator, exprs |-> exprs, current |-> <<>>, cursor |-> 0]

\* LazyExpandedStruct::iter
iter(s) ==
    [source |->
        CASE s.source = "ValueLiteral" ->
                ExpandedStructIteratorSource("ValueLiteral", MacroEvaluator_new, s.fields)
          [] s.source = "Template" ->
                ExpandedStructIteratorSource("Template", MacroEvaluator_new, s.fields)
          [] s.source = "MakeStruct" ->
                ExpandedStructIteratorSource("MakeStruct", MacroEvaluator_new, s.arguments)
          [] s.source = "MakeField" ->
                ExpandedStructIteratorSource("MakeField", MacroEvaluator_new, <<s.the_field>>),
     state |-> ReadingFieldFromSource]

\* LazyExpandedStruct::bump_iter
bump_iter(s) == iter(s)

\* ExpandedStructIteratorSource::evaluator hits unreachable!() for MakeField.
evaluator_unreachable(source) == source.kind = "MakeField"

\* The iterator `it` after a helper returned the state and evaluator in `b`.
with_state_and_evaluator(it, b) ==
    [it EXCEPT !.state = b.state, !.source.evaluator = b.evaluator]

\* A next_struct_from_macro that takes a non-struct for the end of the expansion.
expect_struct_from_macro_lenient(n) ==
    IF n.result.r = "Value" /\ n.result.value.type # "Struct"
    THEN [evaluator |-> n.evaluator, result |-> ValueNone]
    ELSE n

\* next_struct_from_macro, given what evaluator.next() returned.
expect_struct_from_macro(n) ==
    IF n.result.r = "Value" /\ n.result.value.type # "Struct"
    THEN [evaluator |-> n.evaluator,
          result |-> Failure("macros in field name position must produce structs")]
    ELSE n

\* next_struct_from_macro
next_struct_from_macro(evaluator) == expect_struct_from_macro(evaluator_next(evaluator))

\* begin_inlining_struct_from_macro, given what next_struct_from_macro returned.
begin_inlining_struct(state, n) ==
    CASE n.result.r = "Err" ->
            [state |-> state, evaluator |-> n.evaluator, result |-> n.result]
      [] n.result.r = "None" ->
            [state |-> state, evaluator |-> n.evaluator, result |-> [r |-> "Ok"]]
      [] n.result.r = "Value" ->
            [state |-> InliningAStruct(bump_iter(n.result.value.struct)),
             evaluator |-> n.evaluator, result |-> [r |-> "Ok"]]

\* begin_inlining_struct_from_macro
begin_inlining_struct_from_macro(state, evaluator, invocation) ==
    IF is_err(expand(invocation))
    THEN [state |-> state, evaluator |-> evaluator, result |-> expand(invocation)]
    ELSE begin_inlining_struct(
            state, next_struct_from_macro(push(evaluator, expand(invocation))))

\* A begin_expanding_field_macro that puts the expansion under the frames
\* the evaluator holds.
begin_expanding_field_macro_push_below(state, evaluator, field_name, invocation) ==
    IF is_err(expand(invocation))
    THEN [state |-> state, evaluator |-> evaluator, result |-> expand(invocation)]
    ELSE IF must_produce_exactly_one_value(invocation)
    THEN [state |-> state, evaluator |-> evaluator,
          result |-> FieldSome(field_name, expand_singleton(expand(invocation)))]
    ELSE [state |-> ExpandingValueExpr(field_name),
          evaluator |-> <<expand(invocation)>> \o evaluator,
          result |-> FieldNone]

\* A begin_expanding_field_macro that evaluates a one-value macro in place
\* and pushes its expansion as well.
begin_expanding_field_macro_also_pushes(state, evaluator, field_name, invocation) ==
    IF is_err(expand(invocation))
    THEN [state |-> state, evaluator |-> evaluator, result |-> expand(invocation)]
    ELSE [state |-> ExpandingValueExpr(field_name),
          evaluator |-> push(evaluator, expand(invocation)),
          result |-> IF must_produce_exactly_one_value(invocation)
                     THEN FieldSome(field_name, expand_singleton(expand(invocation)))
                     ELSE FieldNone]

\* ExpandedStructIterator::begin_expanding_field_macro
begin_expanding_field_macro(state, evaluator, field_name, invocation) ==
    IF is_err(expand(invocation))
    THEN [state |-> state, evaluator |-> evaluator, result |-> expand(invocation)]
    ELSE IF must_produce_exactly_one_value(invocation)
    THEN [state |-> state, evaluator |-> evaluator,
          result |-> FieldSome(field_name, expand_singleton(expand(invocation)))]
    ELSE [state |-> ExpandingValueExpr(field_name),
          evaluator |-> push(evaluator, expand(invocation)),
          result |-> FieldNone]

RECURSIVE next_field(_)
RECURSIVE next_field_from_make_struct(_, _, _)

\* A make_struct that passes over an argument that is not a struct.
make_struct_set_current_lenient(evaluator, value, arguments) ==
    IF value.type = "Struct"
    THEN next_field_from_make_struct(evaluator, <<iter(value.struct)>>, arguments)
    ELSE next_field_from_make_struct(evaluator, <<>>, arguments)

\* next_field_from_make_struct: the value `value` becomes the current struct.
make_struct_set_current(evaluator, value, arguments) ==
    IF value.type = "Struct"
    THEN next_field_from_make_struct(evaluator, <<iter(value.struct)>>, arguments)
    ELSE [evaluator |-> evaluator, maybe_current_struct |-> <<>>, arguments |-> arguments,
          result |-> Failure("make_struct only accepts structs")]

\* A make_struct that unwraps the next argument although there is none left.
make_struct_next_struct_unwrap(n, arguments) ==
    CASE n.result.r = "Err" ->
            [evaluator |-> n.evaluator, maybe_current_struct |-> <<>>,
             arguments |-> arguments, result |-> n.result]
      [] n.result.r = "Value" \/ (arguments # <<>> /\ Head(arguments).expr = "ValueLiteral") ->
            make_struct_set_current(
                n.evaluator,
                IF n.result.r = "Value" THEN n.result.value ELSE Head(arguments).value,
                IF n.result.r = "Value" THEN arguments ELSE Tail(arguments))
      [] n.result.r = "None" /\ arguments = <<>> ->
            [evaluator |-> n.evaluator, maybe_current_struct |-> <<>>,
             arguments |-> arguments, result |-> Panic]
      [] is_err(expand(Head(arguments).invocation)) ->
            [evaluator |-> n.evaluator, maybe_current_struct |-> <<>>,
             arguments |-> Tail(arguments), result |-> expand(Head(arguments).invocation)]
      [] OTHER ->
            next_field_from_make_struct(
                push(n.evaluator, expand(Head(arguments).invocation)), <<>>, Tail(arguments))

\* next_field_from_make_struct: there is no current struct and the evaluator
\* returned `n`; the next struct is that value or comes from the next argument.
make_struct_next_struct(n, arguments) ==
    CASE n.result.r = "Err" ->
            [evaluator |-> n.evaluator, maybe_current_struct |-> <<>>,
             arguments |-> arguments, result |-> n.result]
      [] n.result.r = "Value" \/ (arguments # <<>> /\ Head(arguments).expr = "ValueLiteral") ->
            make_struct_set_current(
                n.evaluator,
                IF n.result.r = "Value" THEN n.result.value ELSE Head(arguments).value,
                IF n.result.r = "Value" THEN arguments ELSE Tail(arguments))
      [] n.result.r = "None" /\ arguments = <<>> ->
            [evaluator |-> n.evaluator, maybe_current_struct |-> <<>>,
             arguments |-> arguments, result |-> FieldNone]
      [] is_err(expand(Head(arguments).invocation)) ->
            [evaluator |-> n.evaluator, maybe_current_struct |-> <<>>,
             arguments |-> Tail(arguments), result |-> expand(Head(arguments).invocation)]
      [] OTHER ->
            next_field_from_make_struct(
                push(n.evaluator, expand(Head(arguments).invocation)), <<>>, Tail(arguments))

\* A make_struct that goes on to the next argument when the current struct
\* is exhausted, whatever the macro of the current argument has yet to produce.
make_struct_current_field_next_argument(evaluator, c, arguments) ==
    CASE c.result.r = "Field" ->
            [evaluator |-> evaluator, maybe_current_struct |-> <<c.it>>,
             arguments |-> arguments,
             result |-> ExprSome(to_field_expr(LazyExpandedField(c.result.name, c.result.value)))]
      [] c.result.r = "None" ->
            make_struct_next_struct(evaluator_next(MacroEvaluator_new), arguments)
      [] OTHER ->
            [evaluator |-> evaluator, maybe_current_struct |-> <<c.it>>,
             arguments |-> arguments, result |-> c.result]

\* A make_struct that ends with its first struct instead of going on to the next.
make_struct_current_field_first_only(evaluator, c, arguments) ==
    CASE c.result.r = "Field" ->
            [evaluator |-> evaluator, maybe_current_struct |-> <<c.it>>,
             arguments |-> arguments,
             result |-> ExprSome(to_field_expr(LazyExpandedField(c.result.name, c.result.value)))]
      [] c.result.r = "None" /\ "it" \in DOMAIN c ->
            [evaluator |-> evaluator, maybe_current_struct |-> <<c.it>>,
             arguments |-> arguments, result |-> FieldNone]
      [] c.result.r = "None" /\ "it" \notin DOMAIN c ->
            make_struct_next_struct(evaluator_next(evaluator), arguments)
      [] OTHER ->
            [evaluator |-> evaluator, maybe_current_struct |-> <<c.it>>,
             arguments |-> arguments, result |-> c.result]

\* next_field_from_make_struct: the current struct's iterator returned `c`.
make_struct_current_field(evaluator, c, arguments) ==
    CASE c.result.r = "Field" ->
            [evaluator |-> evaluator, maybe_current_struct |-> <<c.it>>,
             arguments |-> arguments,
             result |-> ExprSome(to_field_expr(LazyExpandedField(c.result.name, c.result.value)))]
      [] c.result.r = "None" ->
            make_struct_next_struct(evaluator_next(evaluator), arguments)
      [] OTHER ->
            [evaluator |-> evaluator, maybe_current_struct |-> <<c.it>>,
             arguments |-> arguments, result |-> c.result]

\* ExpandedStructIteratorSource::next_field_from_make_struct
next_field_from_make_struct(evaluator, maybe_current_struct, arguments) ==
    make_struct_current_field(
        evaluator,
        IF maybe_current_struct # <<>>
        THEN next_field(maybe_current_struct[1])
        ELSE [result |-> FieldNone],
        arguments)

\* The make_struct source after next_field_from_make_struct returned `m`.
make_struct_source(source, m) ==
    [source |-> [source EXCEPT !.evaluator = m.evaluator,
                               !.current = m.maybe_current_struct,
                               !.exprs = m.arguments,
                               !.cursor = @ + Len(source.exprs) - Len(m.arguments)],
     result |-> m.result]

\* A make_field source that hands out its field without taking it.
make_field_peek(source) ==
    IF source.exprs = <<>>
    THEN [source |-> source, result |-> FieldNone]
    ELSE [source |-> [source EXCEPT !.cursor = @ + 1],
          result |-> ExprSome(to_field_expr(Head(source.exprs)))]

\* A make_field source that hands out its field as a macro in value position.
make_field_take_as_macro(source) ==
    IF source.exprs = <<>>
    THEN [source |-> source, result |-> FieldNone]
    ELSE [source |-> [source EXCEPT !.exprs = <<>>, !.cursor = @ + 1],
          result |-> ExprSome(NameMacro(Head(source.exprs).name,
                                        values(<<ValueLiteral(Head(source.exprs).value)>>)))]

\* ExpandedStructIteratorSource::next_field, MakeField: maybe_field.take()
make_field_take(source) ==
    IF source.exprs = <<>>
    THEN [source |-> source, result |-> FieldNone]
    ELSE [source |-> [source EXCEPT !.exprs = <<>>, !.cursor = @ + 1],
          result |-> ExprSome(to_field_expr(Head(source.exprs)))]

\* The raw field iterator after it reported an error: it has ended, it is
\* past the field it could not read, or it still stands before that field.
raw_struct_iter_after_error(exprs) ==
    CASE raw_after_error = "ends" -> <<>>
      [] raw_after_error = "skips" -> Tail(exprs)
      [] raw_after_error = "repeats" -> exprs

\* raw_struct_iter.next() and template_iterator.next()
raw_struct_iter_next(source) ==
    CASE source.exprs = <<>> -> [source |-> source, result |-> FieldNone]
      [] source.exprs # <<>> /\ Head(source.exprs).field = "Error" ->
            [source |-> [source EXCEPT !.exprs = raw_struct_iter_after_error(@),
                                       !.cursor = @ + 1],
             result |-> Failure(Head(source.exprs).err)]
      [] OTHER ->
            [source |-> [source EXCEPT !.exprs = Tail(@), !.cursor = @ + 1],
             result |-> ExprSome(Head(source.exprs))]

\* ExpandedStructIteratorSource::next_field
source_next_field(source) ==
    CASE source.kind \in {"Template", "ValueLiteral"} -> raw_struct_iter_next(source)
      [] source.kind = "MakeField" -> make_field_take(source)
      [] source.kind = "MakeStruct" ->
            make_struct_source(
                source,
                next_field_from_make_struct(source.evaluator, source.current, source.exprs))

\* next_field, ReadingFieldFromSource, NameMacro: begin_expanding_field_macro
\* returned `b`: Some(field_result) is returned, None goes round the loop.
after_begin_expanding(it, b) ==
    IF b.result.r # "None"
    THEN [it |-> with_state_and_evaluator(it, b), result |-> b.result]
    ELSE next_field(with_state_and_evaluator(it, b))

\* next_field, ReadingFieldFromSource, EExp: begin_inlining_struct_from_macro
\* returned `b`: an error is returned, Ok goes round the loop.
after_begin_inlining(it, b) ==
    IF b.result.r = "Err"
    THEN [it |-> with_state_and_evaluator(it, b), result |-> b.result]
    ELSE next_field(with_state_and_evaluator(it, b))

\* next_field, ReadingFieldFromSource: the source returned the field expression f.
read_field_expr(it, f) ==
    CASE f.field = "NameValue" ->
            [it |-> it, result |-> FieldSome(f.name, f.value)]
      [] f.field # "NameValue" /\ evaluator_unreachable(it.source) ->
            [it |-> it, result |-> Panic]
      [] f.field = "NameMacro" ->
            after_begin_expanding(
                it,
                begin_expanding_field_macro(it.state, it.source.evaluator, f.name, f.invocation))
      [] f.field = "EExp" ->
            after_begin_inlining(
                it,
                begin_inlining_struct_from_macro(it.state, it.source.evaluator, f.invocation))

\* A next_field that takes an error of the source for the end of the struct.
reading_field_from_source_swallow(it, sn) ==
    CASE sn.result.r = "Err" -> [it |-> [it EXCEPT !.source = sn.source], result |-> FieldNone]
      [] sn.result.r = "Expr" ->
            read_field_expr([it EXCEPT !.source = sn.source], sn.result.expr)
      [] OTHER -> [it |-> [it EXCEPT !.source = sn.source], result |-> sn.result]

\* next_field, ReadingFieldFromSource: the source returned `sn`.
reading_field_from_source(it, sn) ==
    IF sn.result.r # "Expr"
    THEN [it |-> [it EXCEPT !.source = sn.source], result |-> sn.result]
    ELSE read_field_expr([it EXCEPT !.source = sn.source], sn.result.expr)

\* next_field, InliningAStruct: the inlined struct's iterator returned `c`.
inlining_a_struct(it, c) ==
    IF c.result.r # "None"
    THEN [it |-> [it EXCEPT !.state = InliningAStruct(c.it)], result |-> c.result]
    ELSE next_field([it EXCEPT !.state = ReadingFieldFromSource])

\* A next_field that takes the evaluator for empty after every value.
expanding_value_expr_one_value(it, n) ==
    CASE n.result.r = "Err" ->
            [it |-> [it EXCEPT !.source.evaluator = n.evaluator], result |-> n.result]
      [] n.result.r = "Value" ->
            [it |-> [it EXCEPT !.source.evaluator = n.evaluator,
                               !.state = ReadingFieldFromSource],
             result |-> FieldSome(it.state.field_name, n.result.value)]
      [] n.result.r = "None" ->
            next_field([it EXCEPT !.source.evaluator = n.evaluator,
                                  !.state = ReadingFieldFromSource])

\* next_field, ExpandingValueExpr: the evaluator returned `n`.
expanding_value_expr(it, n) ==
    CASE n.result.r = "Err" ->
            [it |-> [it EXCEPT !.source.evaluator = n.evaluator], result |-> n.result]
      [] n.result.r = "Value" ->
            [it |-> [it EXCEPT !.source.evaluator = n.evaluator,
                               !.state = IF is_empty(n.evaluator)
                                         THEN ReadingFieldFromSource ELSE @],
             result |-> FieldSome(it.state.field_name, n.result.value)]
      [] n.result.r = "None" ->
            next_field([it EXCEPT !.source.evaluator = n.evaluator,
                                  !.state = ReadingFieldFromSource])

\* ExpandedStructIterator::next_field
next_field(it) ==
    CASE it.state.s = "ReadingFieldFromSource" ->
            reading_field_from_source(it, source_next_field(it.source))
      [] it.state.s = "InliningAStruct" ->
            inlining_a_struct(it, next_field(it.state.struct_iter))
      [] it.state.s = "ExpandingValueExpr" /\ evaluator_unreachable(it.source) ->
            [it |-> it, result |-> Panic]
      [] it.state.s = "ExpandingValueExpr" ->
            expanding_value_expr(it, evaluator_next(it.source.evaluator))

(***************************************************************************)
(* The expanded sequence iterator of a list or s-expression: the struct    *)
(* iterator's algorithm without the field names.                           *)
(***************************************************************************)
sequence_iter(exprs) ==
    [source |-> exprs, cursor |-> 0, evaluator |-> MacroEvaluator_new]

RECURSIVE sequence_next(_)

\* A sequence iterator that goes back to its source after the first value of
\* an expansion.
sequence_after_evaluator_one_value(it, n) ==
    CASE n.result.r = "Err" ->
            [it |-> [it EXCEPT !.evaluator = n.evaluator], result |-> n.result]
      [] n.result.r = "Value" ->
            [it |-> [it EXCEPT !.evaluator = MacroEvaluator_new], result |-> n.result]
      [] n.result.r = "None" ->
            sequence_next([it EXCEPT !.evaluator = n.evaluator])

\* A sub-expansion is under way and the evaluator returned `n`.
sequence_after_evaluator(it, n) ==
    CASE n.result.r = "Err" ->
            [it |-> [it EXCEPT !.evaluator = n.evaluator], result |-> n.result]
      [] n.result.r = "Value" ->
            [it |-> [it EXCEPT !.evaluator = n.evaluator], result |-> n.result]
      [] n.result.r = "None" ->
            sequence_next([it EXCEPT !.evaluator = n.evaluator])

\* The source gave the value expression `e`.
sequence_from_source(it, e) ==
    IF e.expr = "ValueLiteral"
    THEN [it |-> [it EXCEPT !.cursor = @ + 1], result |-> ValueSome(e.value)]
    ELSE IF is_err(expand(e.invocation))
    THEN [it |-> [it EXCEPT !.cursor = @ + 1], result |-> expand(e.invocation)]
    ELSE sequence_next([it EXCEPT !.cursor = @ + 1,
                                  !.evaluator = push(@, expand(e.invocation))])

\* The sequence iterator's next()
sequence_next(it) ==
    IF ~is_empty(it.evaluator)
    THEN sequence_after_evaluator(it, evaluator_next(it.evaluator))
    ELSE IF it.cursor = Len(it.source)
    THEN [it |-> it, result |-> ValueNone]
    ELSE sequence_from_source(it, it.source[it.cursor + 1])

(***************************************************************************)
(* tooling::FieldExprIterator: the same source and state, yielding the     *)
(* field expressions as well as the fields they expand to.                 *)
(***************************************************************************)
\* LazyExpandedStruct::field_exprs
field_exprs(s) == [source |-> iter(s).source, state |-> iter(s).state]

RECURSIVE field_exprs_next(_)

\* FieldExprIterator::next, ReadingFieldFromSource, EExp:
\* begin_inlining_struct_from_macro returned `b`.
exprs_after_begin_inlining(it, f, b) ==
    [it |-> with_state_and_evaluator(it, b),
     result |-> IF b.result.r = "Err" THEN b.result ELSE ExprSome(f)]

\* FieldExprIterator::next, ReadingFieldFromSource: the source returned the
\* field expression f, which is yielded once the state is set for it.
exprs_read_field_expr(it, f) ==
    CASE f.field = "NameValue" -> [it |-> it, result |-> ExprSome(f)]
      [] f.field # "NameValue" /\ evaluator_unreachable(it.source) ->
            [it |-> it, result |-> Panic]
      [] f.field = "NameMacro" /\ is_err(expand(f.invocation)) ->
            [it |-> it, result |-> expand(f.invocation)]
      [] f.field = "NameMacro" /\ ~is_err(expand(f.invocation)) ->
            [it |-> [it EXCEPT !.source.evaluator = push(@, expand(f.invocation)),
                               !.state = ExpandingValueExpr(f.name)],
             result |-> ExprSome(f)]
      [] f.field = "EExp" ->
            exprs_after_begin_inlining(
                it, f,
                begin_inlining_struct_from_macro(it.state, it.source.evaluator, f.invocation))

\* FieldExprIterator::next, ReadingFieldFromSource: the source returned `sn`.
exprs_reading_field_from_source(it, sn) ==
    IF sn.result.r # "Expr"
    THEN [it |-> [it EXCEPT !.source = sn.source], result |-> sn.result]
    ELSE exprs_read_field_expr([it EXCEPT !.source = sn.source], sn.result.expr)

\* FieldExprIterator::next, InliningAStruct: the inlined struct is exhausted
\* and next_struct_from_macro returned `n`.
exprs_after_next_struct(it, n) ==
    CASE n.result.r = "Err" ->
            [it |-> [it EXCEPT !.source.evaluator = n.evaluator], result |-> n.result]
      [] n.result.r = "Value" ->
            field_exprs_next([it EXCEPT !.source.evaluator = n.evaluator,
                                        !.state = InliningAStruct(
                                                      bump_iter(n.result.value.struct))])
      [] n.result.r = "None" ->
            field_exprs_next([it EXCEPT !.source.evaluator = n.evaluator,
                                        !.state = ReadingFieldFromSource])

\* FieldExprIterator::next, InliningAStruct: the inlined struct's iterator returned `c`.
exprs_inlining_a_struct(it, c) ==
    CASE c.result.r = "Field" ->
            [it |-> [it EXCEPT !.state = InliningAStruct(c.it)],
             result |-> ExprSome(to_field_expr(LazyExpandedField(c.result.name, c.result.value)))]
      [] c.result.r = "None" ->
            exprs_after_next_struct(it, next_struct_from_macro(it.source.evaluator))
      [] OTHER ->
            [it |-> [it EXCEPT !.state = InliningAStruct(c.it)], result |-> c.result]

\* FieldExprIterator::next, ExpandingValueExpr: the evaluator returned `n`.
exprs_expanding_value_expr(it, n) ==
    CASE n.result.r = "Err" ->
            [it |-> [it EXCEPT !.source.evaluator = n.evaluator], result |-> n.result]
      [] n.result.r = "Value" ->
            [it |-> [it EXCEPT !.source.evaluator = n.evaluator,
                               !.state = IF is_empty(n.evaluator)
                                         THEN ReadingFieldFromSource ELSE @],
             result |-> ExprSome(NameValue(it.state.field_name, n.result.value))]
      [] n.result.r = "None" ->
            field_exprs_next([it EXCEPT !.source.evaluator = n.evaluator,
                                        !.state = ReadingFieldFromSource])

\* FieldExprIterator::next
field_exprs_next(it) ==
    CASE it.state.s = "ReadingFieldFromSource" ->
            exprs_reading_field_from_source(it, source_next_field(it.source))
      [] it.state.s = "InliningAStruct" ->
            exprs_inlining_a_struct(it, next_field(it.state.struct_iter))
      [] it.state.s = "ExpandingValueExpr" /\ evaluator_unreachable(it.source) ->
            [it |-> it, result |-> Panic]
      [] it.state.s = "ExpandingValueExpr" ->
            exprs_expanding_value_expr(it, evaluator_next(it.source.evaluator))

(***************************************************************************)
(* LazyExpandedStruct::find                                                *)
(***************************************************************************)
\* TemplateStructIndex: field name -> the positions of the template's field
\* expressions with that name, in template order.
TemplateStructIndex(fields) ==
    [n \in {fields[i].name : i \in DOMAIN fields} |->
        LET at == {i \in DOMAIN fields : fields[i].name = n}
            RECURSIVE ordered(_)
            ordered(S) == IF S = {} THEN <<>>
                          ELSE LET m == CHOOSE x \in S : \A y \in S : x <= y
                               IN  <<m>> \o ordered(S \ {m})
        IN  ordered(at)]

\* TemplateBodyExpr::to_value_expr, for the expression in a field's value position.
to_value_expr(f) ==
    IF f.field = "NameValue" THEN ValueLiteral(f.value) ELSE MacroInvocation(f.invocation)

\* MacroEvaluator::for_macro_expr
for_macro_expr(invocation) == push(MacroEvaluator_new, expand(invocation))

\* The linear scan of find(): `for field_result in self.iter()`.
RECURSIVE find_scan(_, _)
find_scan_field(n, name) ==
    CASE n.result.r = "None" -> ValueNone
      [] n.result.r = "Field" /\ n.result.name = name -> ValueSome(n.result.value)
      [] n.result.r = "Field" /\ n.result.name # name -> find_scan(n.it, name)
      [] OTHER -> n.result

find_scan(it, name) == find_scan_field(next_field(it), name)

\* A find that takes the last indexed candidate.
last_result_address(value_expr_addresses) == value_expr_addresses[Len(value_expr_addresses)]

\* find: `let first_result_address = value_expr_addresses[0]`
first_result_address(value_expr_addresses) == value_expr_addresses[1]

\* LazyExpandedStruct::find.  `evaluated` lists the expression addresses the
\* call turned into a value expression.
find(s, name) ==
    IF s.source = "Template"
    THEN LET index == TemplateStructIndex(s.fields)
         IN  IF name \notin DOMAIN index
             THEN [result |-> ValueNone, evaluated |-> <<>>]
             ELSE LET first_result_expr == s.fields[first_result_address(index[name])]
                      value_expr == to_value_expr(first_result_expr)
                  IN  [result |->
                          IF value_expr.expr = "ValueLiteral"
                          THEN ValueSome(value_expr.value)
                          ELSE IF is_err(expand(value_expr.invocation))
                          THEN expand(value_expr.invocation)
                          ELSE evaluator_next(for_macro_expr(value_expr.invocation)).result,
                       evaluated |-> <<first_result_address(index[name])>>]
    ELSE [result |-> find_scan(iter(s), name), evaluated |-> <<>>]

\* LazyExpandedValue::read: the value behind the handle.
ExpandedValueRef(v) == [ref |-> v]

value_read(v) == [r |-> "Ok", value |-> ExpandedValueRef(v)]

\* LazyExpandedStruct::get, from the result of find on:
\* `self.find(name)?.map(|f| f.read()).transpose()`
get_of(find_result) ==
    CASE find_result.r = "None" -> ValueNone
      [] find_result.r = "Value" /\ value_read(find_result.value).r = "Ok" ->
            ValueSome(value_read(find_result.value).value)
      [] find_result.r = "Value" /\ value_read(find_result.value).r # "Ok" ->
            value_read(find_result.value)
      [] OTHER -> find_result

\* LazyExpandedStruct::get_expected, from the result of get on.
get_expected_of(get_result) ==
    CASE get_result.r = "Value" -> [r |-> "Ok", value |-> get_result.value]
      [] get_result.r = "None" -> Failure("did not find expected struct field")
      [] OTHER -> get_result

\* What find(name) and get_expected(name) return on one struct.
find_and_get_expected(name, f) ==
    [name |-> name, result |-> f.result, evaluated |-> f.evaluated,
     expected |-> get_expected_of(get_of(f.result))]

(***************************************************************************)
(* The structs the model is run on.                                        *)
(***************************************************************************)
dog == from_literal(<<NameValue("dog", IntValue(1))>>)
cat == from_literal(<<NameValue("cat", IntValue(2))>>)
a_b == from_literal(<<NameValue("a", IntValue(1)), NameValue("b", IntValue(2))>>)
lit(v) == ValueLiteral(v)
s(x) == ValueLiteral(StructValue(x))

\* Field expressions of a struct literal of the data stream.
LiteralFields ==
    { NameValue("a", IntValue(1)),
      NameMacro("bar", values(<<lit(IntValue(1)), MacroInvocation(values(<<lit(IntValue(2))>>))>>)),
      NameMacro("bar", values(<<>>)),
      NameMacro("foo", make_field("m", IntValue(3))),
      EExp(values(<<s(dog), s(cat)>>)),
      EExp(values(<<s(dog)>>)),
      EExp(values(<<>>)),
      EExp(values(<<lit(IntValue(1)), s(dog)>>)),
      EExp(make_struct(<<s(a_b), s(cat)>>)),
      EExp(make_struct(<<>>)) }

\* Field expressions of a struct in a template body: the name is always literal.
TemplateFields ==
    { NameValue("bar", IntValue(1)),
      NameValue("bar", IntValue(2)),
      NameValue("a", IntValue(1)),
      NameMacro("bar", values(<<lit(IntValue(3)), lit(IntValue(4))>>)),
      NameMacro("bar", values(<<MacroInvocation(values(<<lit(IntValue(3)), lit(IntValue(4))>>)),
                                lit(IntValue(5))>>)),
      NameMacro("bar", values(<<>>)),
      NameMacro("a", make_field("m", IntValue(3))) }

\* Arguments of make_struct.
MakeStructArguments ==
    { s(dog), s(a_b), lit(IntValue(1)),
      s(from_literal(<<>>)),
      MacroInvocation(values(<<s(dog), s(cat)>>)),
      MacroInvocation(values(<<>>)),
      MacroInvocation(values(<<s(cat), lit(IntValue(2))>>)) }

Names == {"a", "bar", "dog", "zzz"}

\* Field expressions of struct literals the raw source or a macro fails on.
FaultyFields ==
    { RawError("Incomplete"),
      NameMacro("bar", malformed),
      EExp(malformed),
      NameMacro("bar", values(<<lit(IntValue(1)), MacroInvocation(malformed)>>)),
      NameValue("a", IntValue(1)),
      NameMacro("bar", values(<<lit(IntValue(1)), MacroInvocation(values(<<lit(IntValue(2))>>))>>)),
      EExp(values(<<s(dog), s(cat)>>)),
      EExp(values(<<>>)) }

\* A struct literal the raw source has only the beginning of.
cut_short == from_literal(<<NameValue("a", IntValue(1)), RawError("Incomplete")>>)

\* Arguments of make_struct, some of which fail to expand.
FaultyArguments ==
    { s(dog), lit(IntValue(1)), s(cut_short),
      MacroInvocation(malformed),
      MacroInvocation(values(<<s(cat), MacroInvocation(malformed)>>)) }

FaultyStructs ==
    {from_literal(f) : f \in SeqsUpTo(FaultyFields, MaxFields)}
    \cup {from_make_struct(f) : f \in SeqsUpTo(FaultyArguments, MaxFields)}

Structs ==
    {from_literal(f) : f \in SeqsUpTo(LiteralFields, MaxFields)}
    \cup {from_template(f) : f \in SeqsUpTo(TemplateFields, MaxFields)}
    \cup {from_make_struct(f) : f \in SeqsUpTo(MakeStructArguments, MaxFields)}
    \cup {from_make_field(LazyExpandedField(n, v)) :
            n \in {"a", "bar"}, v \in {IntValue(1), StructValue(dog)}}

(***************************************************************************)
(* The state machine.                                                      *)
(***************************************************************************)
Init ==
    /\ struct \in Structs
    /\ eager \in BOOLEAN
    /\ raw_after_error = "ends"
    /\ iterator = <<>>
    /\ emitted = <<>>
    /\ found = <<>>
    /\ exprs_iterator = <<>>
    /\ yielded = <<>>
    /\ other_iterator = <<>>
    /\ other_emitted = <<>>
    /\ sequence = <<>>
    /\ sequence_iterator = <<>>
    /\ produced = <<>>
    /\ OthersIdle

\* Calls that ended the iteration: None, an error or a panic.
Terminals(log) == Cardinality({i \in DOMAIN log : log[i].result.r \notin {"Field", "Expr", "Value"}})

\* let it = struct.iter()
Iter ==
    /\ iterator = <<>>
    /\ iterator' = <<iter(struct)>>
    /\ UNCHANGED <<others, struct, eager, raw_after_error, other_iterator, other_emitted,
                 sequence, sequence_iterator, produced, emitted, found, exprs_iterator, yielded>>

\* it.next()
CallNext ==
    /\ iterator # <<>>
    /\ Terminals(emitted) < MaxTerminals
    /\ LET n == next_field(iterator[1])
       IN  /\ iterator' = <<n.it>>
           /\ emitted' = Append(emitted, [pos |-> n.it.source.cursor, result |-> n.result])
    /\ UNCHANGED <<others, struct, eager, raw_after_error, other_iterator, other_emitted,
                 sequence, sequence_iterator, produced, found, exprs_iterator, yielded>>

\* struct.find(name) and struct.get_expected(name)
Find ==
    /\ found = <<>>
    /\ \E name \in Names : found' = <<find_and_get_expected(name, find(struct, name))>>
    /\ UNCHANGED <<others, struct, eager, raw_after_error, other_iterator, other_emitted,
                 sequence, sequence_iterator, produced, iterator, emitted, exprs_iterator, yielded>>

Next == Iter \/ CallNext

Spec == Init /\ [][Next]_vars

\* Structs whose inlined structs have macros in field-name position of their own.
litter == from_literal(<<EExp(values(<<s(dog), s(cat)>>))>>)

NestingFields ==
    { NameValue("a", IntValue(1)),
      EExp(values(<<s(litter), s(dog)>>)),
      EExp(values(<<s(cat)>>)) }

ExprsStructs == Structs \cup {from_literal(f) : f \in SeqsUpTo(NestingFields, MaxFields)}

InitExprs ==
    /\ struct \in ExprsStructs
    /\ eager \in BOOLEAN
    /\ raw_after_error = "ends"
    /\ iterator = <<>>
    /\ emitted = <<>>
    /\ found = <<>>
    /\ exprs_iterator = <<>>
    /\ yielded = <<>>
    /\ other_iterator = <<>>
    /\ other_emitted = <<>>
    /\ sequence = <<>>
    /\ sequence_iterator = <<>>
    /\ produced = <<>>
    /\ OthersIdle

\* let fields = struct.field_exprs()
FieldExprs ==
    /\ exprs_iterator = <<>>
    /\ exprs_iterator' = <<field_exprs(struct)>>
    /\ UNCHANGED <<others, struct, eager, raw_after_error, other_iterator, other_emitted,
                 sequence, sequence_iterator, produced, iterator, emitted, found, yielded>>

\* fields.next()
FieldExprsNext ==
    /\ exprs_iterator # <<>>
    /\ Terminals(yielded) < MaxTerminals
    /\ LET n == field_exprs_next(exprs_iterator[1])
       IN  /\ exprs_iterator' = <<n.it>>
           /\ yielded' = Append(yielded, [pos |-> n.it.source.cursor, result |-> n.result])
    /\ UNCHANGED <<others, struct, eager, raw_after_error, other_iterator, other_emitted,
                 sequence, sequence_iterator, produced, iterator, emitted, found>>

NextExprs == FieldExprs \/ FieldExprsNext

SpecExprs == InitExprs /\ [][NextExprs]_vars

\* The same iteration over structs whose source or macros report errors.
InitFaulty ==
    /\ struct \in FaultyStructs
    /\ eager \in BOOLEAN
    /\ raw_after_error \in {"ends", "skips", "repeats"}
    /\ iterator = <<>>
    /\ emitted = <<>>
    /\ found = <<>>
    /\ exprs_iterator = <<>>
    /\ yielded = <<>>
    /\ other_iterator = <<>>
    /\ other_emitted = <<>>
    /\ sequence = <<>>
    /\ sequence_iterator = <<>>
    /\ produced = <<>>
    /\ OthersIdle

SpecFaulty == InitFaulty /\ [][Next]_vars

\* let other = struct.iter(), on the handle that `iterator` came from
IterAgain ==
    /\ other_iterator = <<>>
    /\ other_iterator' = <<iter(struct)>>
    /\ UNCHANGED <<others, struct, eager, raw_after_error, iterator, emitted, found, exprs_iterator,
                   yielded, other_emitted, sequence, sequence_iterator, produced>>

\* other.next()
OtherNext ==
    /\ other_iterator # <<>>
    /\ Terminals(other_emitted) < MaxTerminals
    /\ LET n == next_field(other_iterator[1])
       IN  /\ other_iterator' = <<n.it>>
           /\ other_emitted' = Append(other_emitted,
                                      [pos |-> n.it.source.cursor, result |-> n.result])
    /\ UNCHANGED <<others, struct, eager, raw_after_error, iterator, emitted, found, exprs_iterator,
                   yielded, sequence, sequence_iterator, produced>>

NextTwice == Iter \/ CallNext \/ IterAgain \/ OtherNext

SpecTwice == Init /\ [][NextTwice]_vars

\* No struct or sequence is being iterated.
ExpandingIdle ==
    /\ struct = from_literal(<<>>)
    /\ eager = FALSE
    /\ raw_after_error = "ends"
    /\ iterator = <<>>
    /\ emitted = <<>>
    /\ found = <<>>
    /\ exprs_iterator = <<>>
    /\ yielded = <<>>
    /\ other_iterator = <<>>
    /\ other_emitted = <<>>
    /\ sequence = <<>>
    /\ sequence_iterator = <<>>
    /\ produced = <<>>

NextFind == Find

SpecFind == Init /\ [][NextFind]_vars

\* Value expressions of a list or s-expression.
SequenceExprs ==
    { lit(IntValue(1)),
      lit(IntValue(2)),
      MacroInvocation(values(<<lit(IntValue(3)), lit(IntValue(4))>>)),
      MacroInvocation(values(<<>>)),
      MacroInvocation(values(<<MacroInvocation(values(<<lit(IntValue(5))>>)), lit(IntValue(6))>>)),
      MacroInvocation(make_struct(<<s(dog)>>)) }

InitSequence ==
    /\ struct = from_literal(<<>>)
    /\ eager \in BOOLEAN
    /\ raw_after_error = "ends"
    /\ iterator = <<>>
    /\ emitted = <<>>
    /\ found = <<>>
    /\ exprs_iterator = <<>>
    /\ yielded = <<>>
    /\ other_iterator = <<>>
    /\ other_emitted = <<>>
    /\ sequence \in SeqsUpTo(SequenceExprs, MaxFields)
    /\ sequence_iterator = <<>>
    /\ produced = <<>>
    /\ OthersIdle

\* let values = sequence.iter()
SequenceIter ==
    /\ sequence_iterator = <<>>
    /\ sequence_iterator' = <<sequence_iter(sequence)>>
    /\ UNCHANGED <<others, struct, eager, raw_after_error, iterator, emitted, found, exprs_iterator,
                   yielded, other_iterator, other_emitted, sequence, produced>>

\* values.next()
SequenceNext ==
    /\ sequence_iterator # <<>>
    /\ Terminals(produced) < MaxTerminals
    /\ LET n == sequence_next(sequence_iterator[1])
       IN  /\ sequence_iterator' = <<n.it>>
           /\ produced' = Append(produced, [pos |-> n.it.cursor, result |-> n.result])
    /\ UNCHANGED <<others, struct, eager, raw_after_error, iterator, emitted, found, exprs_iterator,
                   yielded, other_iterator, other_emitted, sequence>>

NextSequence == SequenceIter \/ SequenceNext

SpecSequence == InitSequence /\ [][NextSequence]_vars

(***************************************************************************)
(* What a struct expands to according to the specification: the macro      *)
(* expansions of section 4.1 and the field order of sections 3 and 4.3.    *)
(* A run is the fields one source position contributes, in order, and      *)
(* whether it ends in a decoding error.                                    *)
(***************************************************************************)
RECURSIVE Expansion(_)
RECURSIVE ExpansionOfArgs(_)
RECURSIVE ExpectedFields(_)
RECURSIVE StructRun(_)

Run(fields, err) == [fields |-> fields, err |-> err]

\* r1 followed by r2; nothing follows an error.
Cat(r1, r2) == IF r1.err THEN r1 ELSE Run(r1.fields \o r2.fields, r2.err)

\* In an expansion, the place where evaluating it fails with the error e.
ErrorValue(e) == [type |-> "Error", err |-> e]

\* The values an invocation produces, in order.
Expansion(invocation) ==
    CASE invocation.macro = "malformed" -> <<ErrorValue("invalid macro invocation")>>
      [] invocation.macro = "values" -> ExpansionOfArgs(invocation.args)
      [] invocation.macro = "make_struct" ->
            <<StructValue(from_make_struct(invocation.args))>>
      [] invocation.macro = "make_field" ->
            <<StructValue(from_make_field(
                  LazyExpandedField(invocation.fname, invocation.fvalue)))>>

ExpansionOfArgs(args) ==
    IF args = <<>> THEN <<>>
    ELSE (IF Head(args).expr = "ValueLiteral"
          THEN <<Head(args).value>>
          ELSE Expansion(Head(args).invocation)) \o ExpansionOfArgs(Tail(args))

\* The fields of the structs in `vals`, in order, up to the first non-struct.
StructRun(vals) ==
    IF vals = <<>> THEN Run(<<>>, FALSE)
    ELSE IF Head(vals).type # "Struct" THEN Run(<<>>, TRUE)
    ELSE Cat(ExpectedFields(Head(vals).struct), StructRun(Tail(vals)))

\* The number of source positions of a struct.
Positions(st) ==
    CASE st.source \in {"ValueLiteral", "Template"} -> Len(st.fields)
      [] st.source = "MakeStruct" -> Len(st.arguments)
      [] st.source = "MakeField" -> 1

\* The values of `vals` before the first place of failure.
RECURSIVE BeforeError(_)
BeforeError(vals) ==
    IF vals = <<>> \/ Head(vals).type = "Error" THEN <<>>
    ELSE <<Head(vals)>> \o BeforeError(Tail(vals))

\* The run source position p of struct st contributes.
ExpectedRun(st, p) ==
    CASE st.source = "MakeField" -> Run(<<st.the_field>>, FALSE)
      [] st.source = "MakeStruct" -> StructRun(ExpansionOfArgs(<<st.arguments[p]>>))
      [] st.source \in {"ValueLiteral", "Template"} /\ st.fields[p].field = "Error" ->
            Run(<<>>, TRUE)
      [] st.source \in {"ValueLiteral", "Template"} /\ st.fields[p].field = "NameValue" ->
            Run(<<LazyExpandedField(st.fields[p].name, st.fields[p].value)>>, FALSE)
      [] st.source \in {"ValueLiteral", "Template"} /\ st.fields[p].field = "NameMacro" ->
            Run([i \in 1..Len(BeforeError(Expansion(st.fields[p].invocation))) |->
                    LazyExpandedField(st.fields[p].name, Expansion(st.fields[p].invocation)[i])],
                BeforeError(Expansion(st.fields[p].invocation))
                    # Expansion(st.fields[p].invocation))
      [] st.source \in {"ValueLiteral", "Template"} /\ st.fields[p].field = "EExp" ->
            StructRun(Expansion(st.fields[p].invocation))

RECURSIVE ExpectedFrom(_, _)
ExpectedFrom(st, p) ==
    IF p > Positions(st) THEN Run(<<>>, FALSE)
    ELSE Cat(ExpectedRun(st, p), ExpectedFrom(st, p + 1))

ExpectedFields(st) == ExpectedFrom(st, 1)

(***************************************************************************)
(* The log of next() calls.  After an error the stream is ended by         *)
(* convention, so the claims read the log up to its first error.           *)
(***************************************************************************)
IsError(e) == e.result.r \in {"Err", "Panic"}

FirstError(log) ==
    IF \E i \in DOMAIN log : IsError(log[i])
    THEN CHOOSE i \in DOMAIN log : IsError(log[i]) /\ \A j \in 1..(i - 1) : ~IsError(log[j])
    ELSE Len(log)

ValidLog == SubSeq(emitted, 1, FirstError(emitted))

AsField(e) == LazyExpandedField(e.result.name, e.result.value)

\* The fields the valid log shows for source position p.
FieldsAt(p) ==
    LET at == SelectSeq(ValidLog, LAMBDA e : e.pos = p /\ e.result.r = "Field")
    IN  [i \in 1..Len(at) |-> AsField(at[i])]

\* The valid log shows an error for source position p.
ErrorAt(p) == \E i \in DOMAIN ValidLog : ValidLog[i].pos = p /\ IsError(ValidLog[i])

\* The iterator has finished with source position p without an error.
Past(p) ==
    /\ ~\E i \in DOMAIN ValidLog : IsError(ValidLog[i])
    /\ \E i \in DOMAIN ValidLog : ValidLog[i].pos > p \/ ValidLog[i].result.r = "None"

IsFieldSource == struct.source \in {"ValueLiteral", "Template"}

\* The log never goes back to an earlier source position.
PositionsInOrder ==
    \A i, j \in DOMAIN ValidLog : i < j => ValidLog[i].pos <= ValidLog[j].pos

(***************************************************************************)
(* The claims.                                                             *)
(***************************************************************************)

\* C1: the fields an ExpandedStructIterator emits are in the source order of
\* the field expressions: what is emitted while the source is at position p
\* is, in order, a part of what the field expression at p expands to, so a
\* macro's fields sit at the macro's position as one run and no field that
\* another position's macro produced is emitted among them.
C1_SourceOrder ==
    IsFieldSource =>
        /\ PositionsInOrder
        /\ \A p \in 1..Positions(struct) :
                IsPrefix(FieldsAt(p), ExpectedRun(struct, p).fields)

\* C2: a NameMacro(n, invocation) field whose invocation expands to v1..vk is
\* emitted as exactly the k fields (n,v1)..(n,vk), in that order and without
\* an error, before the iterator goes on to the next source field.
C2_NameMacroFields ==
    IsFieldSource =>
        \A p \in 1..Positions(struct) :
            struct.fields[p].field = "NameMacro" =>
                /\ IsPrefix(FieldsAt(p), ExpectedRun(struct, p).fields)
                /\ ~ErrorAt(p)
                /\ Past(p) => FieldsAt(p) = ExpectedRun(struct, p).fields

\* A field expression (:make_struct A1..Ak) whose arguments are struct literals.
IsMakeStructOfStructs(f) ==
    /\ f.field = "EExp"
    /\ f.invocation.macro = "make_struct"
    /\ \A i \in DOMAIN f.invocation.args :
            /\ f.invocation.args[i].expr = "ValueLiteral"
            /\ f.invocation.args[i].value.type = "Struct"

\* The fields of A1, then of A2, ..., then of Ak.
FieldsOfArguments(args) ==
    Flatten([i \in 1..Len(args) |-> ExpectedFields(args[i].value.struct).fields])

\* C3: in a parent struct {pre..., (:make_struct A1..Ak), post...} with struct
\* arguments, the make_struct position contributes every field of A1 in
\* order, ..., then every field of Ak in order (nothing when k = 0), after
\* what the positions before it contribute and before what the later ones do.
C3_MakeStructSplice ==
    struct.source = "ValueLiteral" =>
        \A p \in 1..Positions(struct) :
            IsMakeStructOfStructs(struct.fields[p]) =>
                /\ PositionsInOrder
                /\ IsPrefix(FieldsAt(p), FieldsOfArguments(struct.fields[p].invocation.args))
                /\ ~ErrorAt(p)
                /\ Past(p) => FieldsAt(p) = FieldsOfArguments(struct.fields[p].invocation.args)

\* C3, witness: {a:1, (:make_struct {a:1, b:2} {cat:2}), a:1} was iterated to
\* its end.
C3_Witness ==
    /\ struct = from_literal(<<NameValue("a", IntValue(1)),
                               EExp(make_struct(<<s(a_b), s(cat)>>)),
                               NameValue("a", IntValue(1))>>)
    /\ Len(emitted) = 6
    /\ emitted[6].result.r = "None"
    /\ FieldsAt(2) = <<LazyExpandedField("a", IntValue(1)),
                       LazyExpandedField("b", IntValue(2)),
                       LazyExpandedField("cat", IntValue(2))>>

\* C4: when the macro in field-name position yields several structs, the
\* iterator inlines every one of them before it reads its next source field:
\* once it is past the macro's position it has emitted the fields of all the
\* structs, and between calls it is in ReadingFieldFromSource only when the
\* evaluator has no value left to give.
C4_InlinesEveryStruct ==
    (struct.source = "ValueLiteral" /\ iterator # <<>>) =>
        /\ \A p \in 1..Positions(struct) :
                (struct.fields[p].field = "EExp" /\ ~ExpectedRun(struct, p).err /\ Past(p)) =>
                    FieldsAt(p) = ExpectedRun(struct, p).fields
        /\ (iterator[1].state.s = "ReadingFieldFromSource" /\ ValidLog = emitted
                /\ ~\E i \in DOMAIN emitted : IsError(emitted[i])) =>
                    pop_exhausted(iterator[1].source.evaluator) = <<>>

\* A macro in field-name position whose first value is not a struct.
FirstValueIsNotStruct(f) ==
    /\ f.field = "EExp"
    /\ Expansion(f.invocation) # <<>>
    /\ Expansion(f.invocation)[1].type \notin {"Struct", "Error"}

\* C5: when the macro in field-name position at source position p expands to
\* a first value that is not a struct, the call that reads position p returns
\* the decoding error: the first thing the log shows from position p on is
\* that error, not a field made of the value, not a later field, not the end
\* of the struct and not a panic.
C5_NonStructIsDecodingError ==
    struct.source = "ValueLiteral" =>
        \A p \in 1..Positions(struct) :
            FirstValueIsNotStruct(struct.fields[p]) =>
                \A i \in DOMAIN ValidLog :
                    ValidLog[i].pos >= p =>
                        /\ ValidLog[i].pos = p
                        /\ ValidLog[i].result =
                              Failure("macros in field name position must produce structs")

\* C5, witness: {a:1, (:values 1 {dog:1})} returned a:1 and then the error.
C5_Witness ==
    /\ struct = from_literal(<<NameValue("a", IntValue(1)),
                               EExp(values(<<lit(IntValue(1)), s(dog)>>))>>)
    /\ Len(emitted) = 2
    /\ emitted[1].result = FieldSome("a", IntValue(1))
    /\ emitted[2].result.r = "Err"

\* C6: a macro in field-name position that expands to no value contributes
\* nothing: no field and no error is emitted at its position, and while the
\* source stands at its position the iterator is in ReadingFieldFromSource.
C6_EmptyExpansionIsNoOp ==
    (struct.source = "ValueLiteral" /\ iterator # <<>>) =>
        \A p \in 1..Positions(struct) :
            (struct.fields[p].field = "EExp" /\ Expansion(struct.fields[p].invocation) = <<>>) =>
                /\ FieldsAt(p) = <<>>
                /\ ~ErrorAt(p)
                /\ (iterator[1].source.cursor = p /\ ValidLog = emitted
                        /\ ~\E i \in DOMAIN emitted : IsError(emitted[i])) =>
                            iterator[1].state.s = "ReadingFieldFromSource"

\* The fields of the valid log, in order.
LoggedFields ==
    LET at == SelectSeq(ValidLog, LAMBDA e : e.result.r = "Field")
    IN  [i \in 1..Len(at) |-> AsField(at[i])]

\* The valid log's entries that are not fields.
LoggedEnds == SelectSeq(ValidLog, LAMBDA e : e.result.r # "Field")

\* The first source position whose run ends in an error.
FirstErrorPosition(st) ==
    CHOOSE p \in 1..Positions(st) :
        /\ ExpectedRun(st, p).err
        /\ \A q \in 1..(p - 1) : ~ExpectedRun(st, q).err

C8_MakeFieldOneField ==
    struct.source = "MakeField" =>
        \A i \in DOMAIN emitted :
            emitted[i].result =
                IF i = 1
                THEN FieldSome(struct.the_field.name, struct.the_field.value)
                ELSE FieldNone

\* C8, witness: the field and then None twice.
C8_Witness ==
    /\ struct.source = "MakeField"
    /\ Len(emitted) = 3
    /\ emitted[1].result.r = "Field"
    /\ emitted[3].result.r = "None"

\* The positions of the template fields named `name`.
FieldsNamed(st, name) == {i \in DOMAIN st.fields : st.fields[i].name = name}

\* C9: find(name) on a template-backed struct answers from the first field
\* expression named `name` in template order: its value, or the first value
\* its macro produces (none if it produces none), never from a later field
\* of that name; when no field has the name it returns Ok(None) and has
\* evaluated no expression.
C9_FindFirstInTemplate ==
    (struct.source = "Template" /\ found # <<>>) =>
        LET at == FieldsNamed(struct, found[1].name)
            first == CHOOSE i \in at : \A j \in at : i <= j
        IN  IF at = {}
            THEN found[1].result = ValueNone /\ found[1].evaluated = <<>>
            ELSE /\ found[1].evaluated = <<first>>
                 /\ found[1].result =
                        IF ExpectedRun(struct, first).fields = <<>>
                        THEN ValueNone
                        ELSE ValueSome(ExpectedRun(struct, first).fields[1].value)

\* C9, witness: find("bar") on the template struct {bar:2, a:1, bar:1}
\* returned 2.
C9_Witness ==
    /\ struct = from_template(<<NameValue("bar", IntValue(2)),
                                NameValue("a", IntValue(1)),
                                NameValue("bar", IntValue(1))>>)
    /\ found # <<>>
    /\ found[1].name = "bar"
    /\ found[1].result = ValueSome(IntValue(2))

\* Once next() has returned None, every later call returns None.
NoneIsFinal ==
    \A i, j \in DOMAIN emitted :
        (i < j /\ emitted[i].result.r = "None") => emitted[j].result.r = "None"

\* C10: once next() has returned None every later call returns None, and up
\* to then each call resumes right after the last emitted field: the fields
\* come out as the struct's fields in order, none repeated and none skipped,
\* so that None is returned when all of them have been emitted.
C10_ResumesWhereItLeftOff ==
    /\ NoneIsFinal
    /\ IsPrefix(LoggedFields, ExpectedFields(struct).fields)
    /\ (\E i \in DOMAIN ValidLog : ValidLog[i].result.r = "None") =>
            LoggedFields = ExpectedFields(struct).fields

(***************************************************************************)
(* Errors.                                                                 *)
(***************************************************************************)
RECURSIVE ExpectedError(_)

\* The error the first value of `vals` that is no struct, or the first struct
\* of `vals` that cannot be expanded, is reported with.
RECURSIVE RunError(_, _)
RunError(vals, message) ==
    CASE Head(vals).type = "Error" -> Failure(Head(vals).err)
      [] Head(vals).type = "Struct" /\ ExpectedFields(Head(vals).struct).err ->
            ExpectedError(Head(vals).struct)
      [] Head(vals).type = "Struct" /\ ~ExpectedFields(Head(vals).struct).err ->
            RunError(Tail(vals), message)
      [] OTHER -> Failure(message)

\* The error source position p of struct st is reported with.
ExpectedErrorAt(st, p) ==
    CASE st.source = "MakeStruct" ->
            RunError(ExpansionOfArgs(<<st.arguments[p]>>), "make_struct only accepts structs")
      [] st.source # "MakeStruct" /\ st.fields[p].field = "Error" ->
            Failure(st.fields[p].err)
      [] st.source # "MakeStruct" /\ st.fields[p].field = "NameMacro" ->
            Failure(Expansion(st.fields[p].invocation)[
                        Len(BeforeError(Expansion(st.fields[p].invocation))) + 1].err)
      [] st.source # "MakeStruct" /\ st.fields[p].field = "EExp" ->
            RunError(Expansion(st.fields[p].invocation),
                     "macros in field name position must produce structs")

ExpectedError(st) == ExpectedErrorAt(st, FirstErrorPosition(st))

\* C11: an error met while the field at source position p is produced is
\* returned by that call of next(), once for that position, and only after
\* every field of the positions before p has been yielded unchanged: the
\* fields before the first error are the struct's fields up to the failing
\* position, the error is the one that position raises, and neither None nor
\* a field of a later position is returned in its place.
C11_ErrorAtItsPosition ==
    /\ IsPrefix(LoggedFields, ExpectedFields(struct).fields)
    /\ \A i \in DOMAIN ValidLog :
            IsError(ValidLog[i]) =>
                /\ ExpectedFields(struct).err
                /\ LoggedFields = ExpectedFields(struct).fields
                /\ ValidLog[i].pos = FirstErrorPosition(struct)
                /\ ValidLog[i].result = ExpectedError(struct)
    /\ ExpectedFields(struct).err =>
            \A i \in DOMAIN ValidLog :
                /\ ValidLog[i].result.r # "None"
                /\ ValidLog[i].pos <= FirstErrorPosition(struct)
    /\ \A i, j \in DOMAIN emitted :
            (i < j /\ IsError(emitted[i]) /\ IsError(emitted[j])) =>
                emitted[i].pos # emitted[j].pos

\* The source fields a call of next() read: the positions after the cursor
\* the call started at, up to the cursor it ended at.
FieldsRead == (iterator[1].source.cursor + 1)..(iterator'[1].source.cursor)

\* C12: when the raw source reports Incomplete for a field, the call of
\* next() that read the field returns that Incomplete error as it is, and
\* reads no further field of the source in the same call; a make_struct hands
\* on the Incomplete of the struct it is traversing in the same way.  Neither
\* None nor a decoding error appears in its place.
C12_IncompleteIsPropagated ==
    /\ [][(/\ struct.source = "ValueLiteral"
            /\ iterator # <<>>
            /\ emitted' # emitted
            /\ ~\E i \in DOMAIN emitted : IsError(emitted[i]))
            => \A q \in FieldsRead :
                    struct.fields[q].field = "Error" =>
                        /\ q = iterator'[1].source.cursor
                        /\ emitted'[Len(emitted')].result = Failure(struct.fields[q].err)]_vars
    /\ []((ExpectedFields(struct).err /\ ExpectedError(struct) = Failure("Incomplete")) =>
            \A i \in DOMAIN ValidLog :
                ValidLog[i].result.r # "Field" => ValidLog[i].result = Failure("Incomplete"))

\* C12, witness: {a:1, <incomplete>} returned a:1 and then Incomplete.
C12_Witness ==
    /\ struct = cut_short
    /\ Len(emitted) = 2
    /\ emitted[1].result = FieldSome("a", IntValue(1))
    /\ emitted[2].result = Failure("Incomplete")

\* The calls of next() made after the first one that returned an error.
AfterFirstError == {i \in DOMAIN emitted : i > FirstError(emitted)}

\* C13: after next() has returned an error, a further call of next()
\* completes: it returns a field, an error or None, for each of the ways the
\* raw source may behave after its error, and it does not panic.  A call is
\* one step of the model, computed by next_field from the iterator the
\* earlier calls left behind: every call made after an error has its answer
\* in the log, and the answer is of one of the three kinds.
C13_PollingAfterErrorIsSafe ==
    /\ \A i \in AfterFirstError : emitted[i].result.r \in {"Field", "Err", "None"}
    /\ iterator # <<>> =>
            /\ iterator[1].state.s \in
                    {"ReadingFieldFromSource", "ExpandingValueExpr", "InliningAStruct"}
            /\ iterator[1].state.s = "ExpandingValueExpr" =>
                    ~evaluator_unreachable(iterator[1].source)

\* C13, witness: {<incomplete>, a:1}, whose source goes on after its error,
\* returned the error, then a:1, then None.
C13_Witness ==
    /\ struct = from_literal(<<RawError("Incomplete"), NameValue("a", IntValue(1))>>)
    /\ Len(emitted) = 3
    /\ emitted[1].result = Failure("Incomplete")
    /\ emitted[2].result = FieldSome("a", IntValue(1))
    /\ emitted[3].result = FieldNone

(***************************************************************************)
(* The log of the FieldExprIterator's next() calls.                        *)
(***************************************************************************)
ValidYielded == SubSeq(yielded, 1, FirstError(yielded))

\* The field expressions the valid log shows for source position p.
ExprsAt(p) ==
    LET at == SelectSeq(ValidYielded, LAMBDA e : e.pos = p /\ e.result.r = "Expr")
    IN  [i \in 1..Len(at) |-> at[i].result.expr]

\* The FieldExprIterator has finished with source position p without an error.
PastExprs(p) ==
    /\ ~\E i \in DOMAIN ValidYielded : IsError(ValidYielded[i])
    /\ \E i \in DOMAIN ValidYielded :
            ValidYielded[i].pos > p \/ ValidYielded[i].result.r = "None"

\* What the FieldExprIterator is to yield for source position p: the field
\* expression itself when it holds a macro, then the fields it expands to.
ExpectedExprs(st, p) ==
    (IF st.fields[p].field = "NameValue" THEN <<>> ELSE <<st.fields[p]>>)
    \o [i \in 1..Len(ExpectedRun(st, p).fields) |-> to_field_expr(ExpectedRun(st, p).fields[i])]

\* C15: the FieldExprIterator yields, for each source field in order, a
\* NameValue field once; for a NameMacro field the NameMacro expression and
\* then one NameValue per value of its expansion under that name; for an
\* EExp field the EExp expression and then every field of every struct it
\* expands to; and None only after the last source field.
C15_FieldExprsInOrder ==
    IsFieldSource =>
        /\ \A i, j \in DOMAIN ValidYielded : i < j => ValidYielded[i].pos <= ValidYielded[j].pos
        /\ \A p \in 1..Positions(struct) :
                ~ExpectedRun(struct, p).err =>
                    /\ IsPrefix(ExprsAt(p), ExpectedExprs(struct, p))
                    /\ PastExprs(p) => ExprsAt(p) = ExpectedExprs(struct, p)

\* The run of an ExpandedStructIterator: the fields its next() calls return
\* up to the first call that returns no field, and what that call returns.
RECURSIVE Collect(_)
CollectField(n) ==
    IF n.result.r = "Field"
    THEN LET rest == Collect(n.it)
         IN  [fields |-> <<LazyExpandedField(n.result.name, n.result.value)>> \o rest.fields,
              end |-> rest.end]
    ELSE [fields |-> <<>>, end |-> n.result]

Collect(it) == CollectField(next_field(it))

\* The fields among the expressions the FieldExprIterator yielded: the
\* unexpanded NameMacro and EExp entries are left out.
YieldedFields ==
    LET at == SelectSeq(ValidYielded,
                        LAMBDA e : e.result.r = "Expr" /\ e.result.expr.field = "NameValue")
    IN  [i \in 1..Len(at) |-> LazyExpandedField(at[i].result.expr.name, at[i].result.expr.value)]

\* C16: for every struct, the fields the FieldExprIterator yields, its
\* unexpanded NameMacro and EExp entries left out, are the fields the
\* ExpandedStructIterator yields, in the same order; and where the one ends,
\* with None or with an error, the other ends in the same way.
C16_SameFieldsAsExpandedIterator ==
    /\ IsPrefix(YieldedFields, Collect(iter(struct)).fields)
    /\ \A i \in DOMAIN ValidYielded :
            ValidYielded[i].result.r \notin {"Expr", "Field"} =>
                /\ YieldedFields = Collect(iter(struct)).fields
                /\ ValidYielded[i].result = Collect(iter(struct)).end

\* The FieldExprIterator stands, with no error so far, before a NameMacro
\* field whose macro must produce exactly one value.
BeforeSingletonNameMacro ==
    /\ exprs_iterator # <<>>
    /\ ~\E i \in DOMAIN yielded : IsError(yielded[i])
    /\ exprs_iterator[1].source.kind \in {"ValueLiteral", "Template"}
    /\ exprs_iterator[1].state = ReadingFieldFromSource
    /\ exprs_iterator[1].source.exprs # <<>>
    /\ Head(exprs_iterator[1].source.exprs).field = "NameMacro"
    /\ ~is_err(expand(Head(exprs_iterator[1].source.exprs).invocation))
    /\ must_produce_exactly_one_value(Head(exprs_iterator[1].source.exprs).invocation)

\* The ExpandedStructIterator with the source and state of the FieldExprIterator.
InPlace == next_field([source |-> exprs_iterator[1].source, state |-> exprs_iterator[1].state])

\* The FieldExprIterator's call that pushes the expansion, and its next call.
Pushed == field_exprs_next(exprs_iterator[1])
Pulled == field_exprs_next(Pushed.it)

TheEvaluator == iterator[1].source.evaluator

\* C17: the evaluator's next() returns None only when it leaves the frame
\* stack empty, and is_empty() holds exactly when the stack has no frame; so
\* when the iterator has left ExpandingValueExpr for a NameMacro field,
\* after a None or after a value with is_empty(), every value of that
\* field's macro has been emitted under its name.
C17_NoneMeansNoMoreValues ==
    (iterator # <<>> /\ ~evaluator_unreachable(iterator[1].source)) =>
        /\ evaluator_next(TheEvaluator).result = ValueNone =>
                evaluator_next(TheEvaluator).evaluator = <<>>
        /\ is_empty(TheEvaluator) <=> Len(TheEvaluator) = 0
        /\ IsFieldSource =>
                \A p \in 1..Positions(struct) :
                    (struct.fields[p].field = "NameMacro" /\ Past(p)) =>
                        IsPrefix(ExpectedRun(struct, p).fields, FieldsAt(p))

\* C17, witness: {bar: (:values 1 (:values 2))} yielded bar:1, bar:2 and
\* then None.
C17_Witness ==
    /\ struct = from_literal(<<NameMacro("bar",
                     values(<<lit(IntValue(1)), MacroInvocation(values(<<lit(IntValue(2))>>))>>))>>)
    /\ Len(emitted) = 3
    /\ emitted[2].result = FieldSome("bar", IntValue(2))
    /\ emitted[3].result = FieldNone

\* The values a frame stack has yet to produce: those of its top frame, then
\* those of the frame below it, and so on.
RECURSIVE Stream(_)
Stream(evaluator) ==
    IF evaluator = <<>> THEN <<>>
    ELSE ExpansionOfArgs(evaluator[Len(evaluator)].rest)
            \o Stream(SubSeq(evaluator, 1, Len(evaluator) - 1))

\* The frames of `evaluator` above frame j have no value left.
NothingAbove(evaluator, j) ==
    \A i \in (j + 1)..Len(evaluator) : ExpansionOfArgs(evaluator[i].rest) = <<>>

\* A macro of two values, to be pushed on the evaluator under test.
one_two == values(<<lit(IntValue(1)), lit(IntValue(2))>>)

\* C18: the evaluator's frame stack is LIFO.  Pushing an expansion, as
\* begin_expanding_field_macro does, puts one frame on top of the frames
\* there are and produces no value; next() takes its value from the topmost
\* frame that has one, so that the values of the frame pushed last come
\* first; and a frame is changed or removed only when no frame above it has
\* a value left, and removed only when it has none left itself.
C18_EvaluatorIsLifo ==
    (iterator # <<>> /\ ~evaluator_unreachable(iterator[1].source)) =>
        LET pushed == begin_expanding_field_macro(
                          iterator[1].state, TheEvaluator, "bar", one_two)
            n == evaluator_next(TheEvaluator)
        IN  /\ pushed.result = FieldNone
            /\ Len(pushed.evaluator) = Len(TheEvaluator) + 1
            /\ SubSeq(pushed.evaluator, 1, Len(TheEvaluator)) = TheEvaluator
            /\ Stream(pushed.evaluator) = <<IntValue(1), IntValue(2)>> \o Stream(TheEvaluator)
            /\ Stream(TheEvaluator) = <<>> <=> n.result = ValueNone
            /\ Stream(TheEvaluator) # <<>> =>
                    /\ n.result = ValueSome(Head(Stream(TheEvaluator)))
                    /\ Stream(n.evaluator) = Tail(Stream(TheEvaluator))
            /\ \A j \in DOMAIN TheEvaluator :
                    (j > Len(n.evaluator) \/ n.evaluator[j] # TheEvaluator[j]) =>
                        NothingAbove(TheEvaluator, j)
            /\ \A j \in DOMAIN TheEvaluator :
                    j > Len(n.evaluator) =>
                        Len(ExpansionOfArgs(TheEvaluator[j].rest)) <= 1

\* C18, witness: in the template struct {bar: (:values (:values 3 4) 5)},
\* after bar:3 the evaluator holds the outer frame, with 5 to come, under
\* the inner frame, with 4 to come.
C18_Witness ==
    /\ iterator # <<>>
    /\ Len(emitted) = 1
    /\ emitted[1].result = FieldSome("bar", IntValue(3))
    /\ Len(TheEvaluator) = 2
    /\ Stream(TheEvaluator) = <<IntValue(4), IntValue(5)>>

\* The values among the first k results of the sequence iterator.
ProducedValues(k) ==
    LET vals == SelectSeq(SubSeq(produced, 1, k), LAMBDA e : e.result.r = "Value")
    IN  [i \in 1..Len(vals) |-> vals[i].result.value]

\* What the first c value expressions of the sequence expand to.
ExpectedValues(c) == ExpansionOfArgs(SubSeq(sequence, 1, c))

\* C19: an expanded list or s-expression yields its values in source order.
\* A value yielded while the source stands at its c-th value expression
\* comes after every value of the first c-1 expressions and continues what
\* the first c expand to; a literal is yielded as it is and a macro
\* invocation gives all the values of its expansion, none when it is empty;
\* and the iteration ends with None when everything has been yielded.
C19_SequenceInSourceOrder ==
    \A i \in DOMAIN produced :
        /\ produced[i].result.r \in {"Value", "None"}
        /\ produced[i].result.r = "Value" =>
                /\ IsPrefix(ProducedValues(i), ExpectedValues(produced[i].pos))
                /\ IsPrefix(ExpectedValues(produced[i].pos - 1), ProducedValues(i - 1))
                /\ Len(ProducedValues(i)) = i
        /\ produced[i].result.r = "None" =>
                /\ produced[i].pos = Len(sequence)
                /\ ProducedValues(i) = ExpectedValues(Len(sequence))

\* C19, witness: [1, (:values 3 4), (:values)] has yielded 1, 3, 4 and then
\* None.
C19_Witness ==
    /\ sequence = <<lit(IntValue(1)),
                    MacroInvocation(values(<<lit(IntValue(3)), lit(IntValue(4))>>)),
                    MacroInvocation(values(<<>>))>>
    /\ Len(produced) = 4
    /\ ProducedValues(4) = <<IntValue(1), IntValue(3), IntValue(4)>>
    /\ produced[4].result = ValueNone

\* The place in a log of its first result that is not a field.
FirstNonField(log) ==
    IF \E i \in DOMAIN log : log[i].result.r # "Field"
    THEN CHOOSE i \in DOMAIN log :
            /\ log[i].result.r # "Field"
            /\ \A j \in 1..(i - 1) : log[j].result.r = "Field"
    ELSE Len(log) + 1

\* The fields a log shows before its first result that is not a field.
FieldsIn(log) == [i \in 1..(FirstNonField(log) - 1) |-> AsField(log[i])]

\* The log of an iterator agrees with the run of an iterator of the struct
\* that is alone: the same fields in the same order and the same end.
AsIfAlone(log) ==
    /\ IsPrefix(FieldsIn(log), Collect(iter(struct)).fields)
    /\ Len(log) > Len(FieldsIn(log)) =>
            /\ FieldsIn(log) = Collect(iter(struct)).fields
            /\ log[Len(FieldsIn(log)) + 1].result = Collect(iter(struct)).end

\* An iterator whose log has ended has yielded every field of the struct.
FullFieldSequence(log) ==
    Len(log) > Len(FieldsIn(log)) =>
        FieldsIn(log) = ExpectedFields(struct).fields

\* C20: two iter() calls on one LazyExpandedStruct handle give independent
\* iterators.  A step of the one changes neither the other, nor the other's
\* results, nor the handle; whatever the interleaving, and whether or not the
\* other is ever advanced, each yields what an iterator that is alone yields;
\* and that is the full field sequence of the struct.
C20_IndependentIterators ==
    /\ [][/\ struct' = struct
          /\ (iterator' # iterator \/ emitted' # emitted) =>
                    UNCHANGED <<other_iterator, other_emitted>>
          /\ (other_iterator' # other_iterator \/ other_emitted' # other_emitted) =>
                    UNCHANGED <<iterator, emitted>>]_vars
    /\ [](/\ AsIfAlone(emitted)
          /\ AsIfAlone(other_emitted)
          /\ FullFieldSequence(emitted)
          /\ FullFieldSequence(other_emitted))

(***************************************************************************)
(* Reading a handle (src/lazy/raw_value_ref.rs, LazyExpandedFieldName in   *)
(* src/lazy/expanded/struct.rs): a raw value is resolved against the       *)
(* encoding context, a field name is read and resolved.                    *)
(***************************************************************************)
MaxReads == 3

Ok(v) == [r |-> "Ok", value |-> v]

RawValueRef(variant, payload) == [variant |-> variant, payload |-> payload]
ValueRef(variant, payload) == [variant |-> variant, payload |-> payload]

\* RawSymbolRef: a symbol ID or a text literal.
SymbolId(sid) == [symbol |-> "SymbolId", sid |-> sid]
Text(text) == [symbol |-> "Text", text |-> text]

\* A field name of the data stream that cannot be decoded.
InvalidName == [symbol |-> "Invalid"]

SymbolRef(text) == [text |-> text]

\* RawSymbolRef::resolve: the text of a symbol ID is looked up in the symbol
\* table of the context.
raw_symbol_resolve(raw_symbol, label, ctx) ==
    IF raw_symbol.symbol = "Text"
    THEN Ok(SymbolRef(raw_symbol.text))
    ELSE IF raw_symbol.sid \in DOMAIN ctx.symbol_table
    THEN Ok(SymbolRef(ctx.symbol_table[raw_symbol.sid]))
    ELSE Failure(<<"undefined symbol ID", label>>)

\* LazyExpandedList::from_literal and its like: a handle on the raw container.
container_from_literal(ctx, raw_container) == [context |-> ctx, raw |-> raw_container]

\* RawValueRef::resolve
resolve(self, ctx) ==
    CASE self.variant = "Null" -> Ok(ValueRef("Null", self.payload))
      [] self.variant = "Bool" -> Ok(ValueRef("Bool", self.payload))
      [] self.variant = "Int" -> Ok(ValueRef("Int", self.payload))
      [] self.variant = "Float" -> Ok(ValueRef("Float", self.payload))
      [] self.variant = "Decimal" -> Ok(ValueRef("Decimal", self.payload))
      [] self.variant = "Timestamp" -> Ok(ValueRef("Timestamp", self.payload))
      [] self.variant = "String" -> Ok(ValueRef("String", self.payload))
      [] self.variant = "Symbol" ->
            IF is_err(raw_symbol_resolve(self.payload, "a value", ctx))
            THEN raw_symbol_resolve(self.payload, "a value", ctx)
            ELSE Ok(ValueRef("Symbol", raw_symbol_resolve(self.payload, "a value", ctx).value))
      [] self.variant = "Blob" -> Ok(ValueRef("Blob", self.payload))
      [] self.variant = "Clob" -> Ok(ValueRef("Clob", self.payload))
      [] self.variant = "SExp" -> Ok(ValueRef("SExp", container_from_literal(ctx, self.payload)))
      [] self.variant = "List" -> Ok(ValueRef("List", container_from_literal(ctx, self.payload)))
      [] self.variant = "Struct" -> Ok(ValueRef("Struct", container_from_literal(ctx, self.payload)))

\* LazyExpandedFieldName
RawName(ctx, name) == [name |-> "RawName", context |-> ctx, raw |-> name]
TemplateName(template_ref, symbol_ref) ==
    [name |-> "TemplateName", template |-> template_ref, symbol |-> symbol_ref]
MakeFieldName(symbol) == [name |-> "MakeField", symbol |-> symbol]

\* The raw field name's read(): the symbol ID or text in the data stream, or
\* the error of a name that cannot be decoded.
raw_name_read(name) ==
    IF name.symbol = "Invalid" THEN Failure("invalid field name") ELSE Ok(name)

\* LazyExpandedFieldName::read
field_name_read(self) ==
    CASE self.name = "RawName" ->
            IF is_err(raw_name_read(self.raw))
            THEN raw_name_read(self.raw)
            ELSE raw_symbol_resolve(raw_name_read(self.raw).value, "a field name", self.context)
      [] self.name = "TemplateName" -> Ok(self.symbol)
      [] self.name = "MakeField" -> Ok(self.symbol)

\* LazyExpandedFieldName::is_ephemeral
is_ephemeral(self) == self.name # "RawName"

\* The symbol tables of the encoding contexts.
SymbolTables == {<<>>, <<"a">>, <<"b", "a">>}

Contexts == {[symbol_table |-> st, macro_table |-> <<"m">>] : st \in SymbolTables}

RawSymbols == {SymbolId(1), SymbolId(2), SymbolId(9), Text("a"), Text("zzz")}

\* Raw values of every variant.
RawValues ==
    { RawValueRef("Null", "bool"), RawValueRef("Bool", TRUE), RawValueRef("Int", 1),
      RawValueRef("Float", "nan"), RawValueRef("Decimal", <<23, -1>>),
      RawValueRef("Timestamp", <<2024, 1>>), RawValueRef("String", "a"),
      RawValueRef("Blob", <<1, 2>>), RawValueRef("Clob", <<1, 2>>),
      RawValueRef("SExp", <<1>>), RawValueRef("List", <<1>>), RawValueRef("Struct", <<1>>) }
    \cup {RawValueRef("Symbol", rs) : rs \in RawSymbols}

FieldNames(ctx) ==
    {RawName(ctx, rs) : rs \in RawSymbols \cup {InvalidName}}
    \cup {TemplateName("t", SymbolRef("a")), MakeFieldName(SymbolRef("m"))}

InitReading ==
    /\ ExpandingIdle
    /\ SerializingIdle
    /\ WritingIdle
    /\ SequencesIdle
    /\ BinaryIdle
    /\ MacrosIdle
    /\ ComparingIdle
    /\ context \in Contexts
    /\ position \in {0, 7}
    /\ handle \in {[kind |-> "value", value |-> v] : v \in RawValues}
                    \cup {[kind |-> "name", value |-> n] : n \in FieldNames(context)}
    /\ reads = <<>>

\* A read that uses up the symbol the handle refers to.
ReadValueConsuming ==
    /\ handle.kind = "value"
    /\ Len(reads) < MaxReads
    /\ reads' = Append(reads, resolve(handle.value, context))
    /\ context' = [context EXCEPT !.symbol_table = IF @ = <<>> THEN @ ELSE Tail(@)]
    /\ UNCHANGED <<expanding, serializing, writing, sequences, binary, macros, comparing, position, handle>>

\* value.read(): raw.resolve(context)
ReadValue ==
    /\ handle.kind = "value"
    /\ Len(reads) < MaxReads
    /\ reads' = Append(reads, resolve(handle.value, context))
    /\ UNCHANGED <<expanding, serializing, writing, sequences, binary, macros, comparing, context, position, handle>>

\* name.read()
ReadName ==
    /\ handle.kind = "name"
    /\ Len(reads) < MaxReads
    /\ reads' = Append(reads, field_name_read(handle.value))
    /\ UNCHANGED <<expanding, serializing, writing, sequences, binary, macros, comparing, context, position, handle>>

NextReading == ReadValue \/ ReadName

SpecReading == InitReading /\ [][NextReading]_vars

MaxItems == 3
MaxEnds == 2

\* An encoded item: version marker, NOP padding, value or e-expression.
Encoded(opcode, length) == [opcode |-> opcode, length |-> length]

BinaryBuffer_new_with_offset(input, stream_offset) == [data |-> input, offset |-> stream_offset]

\* LazyRawBinaryReader_1_1::new
reader_new(input) == [input |-> BinaryBuffer_new_with_offset(input, 0)]

\* BinaryBuffer::consume: the buffer after its first item.
consume(buffer) == [data |-> Tail(buffer.data), offset |-> buffer.offset + Head(buffer.data).length]

\* BinaryBuffer::peek_opcode: <<>> is None.
peek_opcode(buffer) == IF buffer.data = <<>> THEN <<>> ELSE <<Head(buffer.data).opcode>>

is_nop(opcode) == opcode = "NOP"
is_ivm_start(opcode) == opcode = "IVM"

\* BinaryBuffer::consume_nop_padding: the buffer after the NOP padding it starts with.
RECURSIVE consume_nop_padding(_)
consume_nop_padding(buffer) ==
    IF buffer.data # <<>> /\ is_nop(Head(buffer.data).opcode)
    THEN consume_nop_padding(consume(buffer))
    ELSE buffer

\* BinaryBuffer::opcode_after_nop: moves the buffer past the padding and
\* tells whether an opcode follows it.
opcode_after_nop(buffer) ==
    IF consume_nop_padding(buffer).data = <<>>
    THEN [buffer |-> IF consumes_trailing_nop THEN consume_nop_padding(buffer) ELSE buffer,
          found |-> FALSE]
    ELSE [buffer |-> consume_nop_padding(buffer), found |-> TRUE]

RawStreamItem(item, at) == [item |-> item, at |-> at]

\* LazyRawBinaryReader_1_1::end_of_stream
end_of_stream(pos) == RawStreamItem("EndOfStream", pos)

\* LazyRawBinaryReader_1_1::read_ivm
read_ivm(self) ==
    [reader |-> [self EXCEPT !.input = consume(@)],
     result |-> Ok(RawStreamItem("VersionMarker", self.input.offset))]

\* BinaryBuffer::read_sequence_value_expr: the value expression the buffer
\* starts with, padding skipped, and the buffer after it; <<>> is None.
read_sequence_value_expr(buffer) ==
    IF consume_nop_padding(buffer).data = <<>>
    THEN [expr |-> <<>>, remaining |-> consume_nop_padding(buffer)]
    ELSE [expr |-> <<[expr |-> Head(consume_nop_padding(buffer).data).opcode,
                     at |-> consume_nop_padding(buffer).offset]>>,
          remaining |-> consume(consume_nop_padding(buffer))]

\* LazyRawBinaryReader_1_1::read_value_expr
read_value_expr(self) ==
    [reader |-> [self EXCEPT !.input = read_sequence_value_expr(self.input).remaining],
     result |->
        IF read_sequence_value_expr(self.input).expr = <<>>
        THEN Ok(end_of_stream(self.input.offset))
        ELSE Ok(RawStreamItem(read_sequence_value_expr(self.input).expr[1].expr,
                              read_sequence_value_expr(self.input).expr[1].at))]

\* LazyRawReader::position
reader_position(self) == self.input.offset

\* next, once the padding has been dealt with.
reader_next_at_opcode(self) ==
    IF is_ivm_start(peek_opcode(self.input)[1])
    THEN read_ivm(self)
    ELSE read_value_expr(self)

\* A next that takes NOP padding for the end of the stream.
reader_next_nop_ends_stream(self) ==
    IF peek_opcode(self.input) = <<>>
    THEN [reader |-> self, result |-> Ok(end_of_stream(reader_position(self)))]
    ELSE IF is_nop(peek_opcode(self.input)[1]) /\ opcode_after_nop(self.input).found
    THEN [reader |-> [self EXCEPT !.input = opcode_after_nop(self.input).buffer],
          result |-> Ok(end_of_stream(opcode_after_nop(self.input).buffer.offset))]
    ELSE IF is_nop(peek_opcode(self.input)[1])
    THEN read_value_expr([self EXCEPT !.input = opcode_after_nop(self.input).buffer])
    ELSE reader_next_at_opcode(self)

\* LazyRawBinaryReader_1_1::next
reader_next(self) ==
    IF peek_opcode(self.input) = <<>>
    THEN [reader |-> self, result |-> Ok(end_of_stream(reader_position(self)))]
    ELSE IF is_nop(peek_opcode(self.input)[1]) /\ ~opcode_after_nop(self.input).found
    THEN [reader |-> [self EXCEPT !.input = opcode_after_nop(self.input).buffer],
          result |-> Ok(end_of_stream(opcode_after_nop(self.input).buffer.offset))]
    ELSE IF is_nop(peek_opcode(self.input)[1])
    THEN reader_next_at_opcode([self EXCEPT !.input = opcode_after_nop(self.input).buffer])
    ELSE reader_next_at_opcode(self)

\* The encoded items of the streams.
EncodedItems ==
    { Encoded("IVM", 4), Encoded("NOP", 1), Encoded("NOP", 3),
      Encoded("Null", 1), Encoded("Int", 2), Encoded("EExp", 2) }

InitStream ==
    /\ ExpandingIdle
    /\ SerializingIdle
    /\ WritingIdle
    /\ SequencesIdle
    /\ ReadingIdle
    /\ MacrosIdle
    /\ ComparingIdle
    /\ consumes_trailing_nop \in BOOLEAN
    /\ reader \in {<<reader_new(data)>> : data \in SeqsUpTo(EncodedItems, MaxItems)}
    /\ items = <<>>
    /\ binary_struct = <<>>
    /\ fields_iterator = <<>>
    /\ raw_fields = <<>>

\* The calls that returned the end of the stream.
Ends == {i \in DOMAIN items : items[i].result.value.item = "EndOfStream"}

\* reader.next()
ReaderNext ==
    /\ reader # <<>>
    /\ Cardinality(Ends) <= MaxEnds
    /\ LET n == reader_next(reader[1])
       IN  /\ reader' = <<n.reader>>
           /\ items' = Append(items, [pos |-> reader_position(n.reader), result |-> n.result])
    /\ UNCHANGED <<expanding, serializing, writing, sequences, reading, macros, comparing, consumes_trailing_nop, binary_struct,
                   fields_iterator, raw_fields>>

NextStream == ReaderNext

SpecStream == InitStream /\ [][NextStream]_vars

\* The items of `data` from its first item that is not NOP padding.
RECURSIVE AfterPadding(_)
AfterPadding(data) ==
    IF data = <<>> \/ Head(data).opcode # "NOP" THEN data ELSE AfterPadding(Tail(data))

\* The number of bytes of NOP padding `data` begins with.
RECURSIVE PaddingLength(_)
PaddingLength(data) ==
    IF data = <<>> \/ Head(data).opcode # "NOP" THEN 0
    ELSE Head(data).length + PaddingLength(Tail(data))

\* What the reader calls the item of an opcode.
ItemOf(opcode) ==
    CASE opcode = "IVM" -> "VersionMarker"
      [] opcode = "EExp" -> "EExp"
      [] OTHER -> opcode

\* The result of the latest call of next().
Latest(log) == log[Len(log)].result.value

\* C23: next() of the raw binary 1.1 reader skips the NOP padding the input
\* begins with, however many NOPs it is made of, and returns the item that
\* follows it, leaving the input right after that item; when nothing or
\* only NOP padding remains it returns EndOfStream, and from then on every
\* call returns EndOfStream at the same position.
C23_NopPaddingIsSkipped ==
    /\ [][items' # items =>
            /\ ~is_err(items'[Len(items')].result)
            /\ AfterPadding(reader[1].input.data) = <<>> =>
                    Latest(items').item = "EndOfStream"
            /\ AfterPadding(reader[1].input.data) # <<>> =>
                    /\ Latest(items').item =
                            ItemOf(Head(AfterPadding(reader[1].input.data)).opcode)
                    /\ Latest(items').at =
                            reader[1].input.offset + PaddingLength(reader[1].input.data)
                    /\ reader'[1].input.data = Tail(AfterPadding(reader[1].input.data))
                    /\ items'[Len(items')].pos =
                            Latest(items').at + Head(AfterPadding(reader[1].input.data)).length]_vars
    /\ [](\A i \in DOMAIN items :
            items[i].result.value.item = "EndOfStream" =>
                \A j \in i..Len(items) :
                    /\ items[j].result = items[i].result
                    /\ items[j].pos = items[i].pos
                    /\ items[j].result.value.at = items[j].pos)

\* C23, witness: in a stream of two NOPs and an int, the first call skipped
\* four bytes of padding and returned the int, and the next two calls
\* returned EndOfStream at offset 6.
C23_Witness ==
    /\ Len(items) = 3
    /\ items[1].result = Ok(RawStreamItem("Int", 4))
    /\ items[2].result = Ok(end_of_stream(6))
    /\ items[3].result = Ok(end_of_stream(6))

\* C23, witness of the padding at the end: the stream is one int and a NOP.
C23_WitnessTrailingNop ==
    /\ Len(items) = 3
    /\ items[1].result = Ok(RawStreamItem("Int", 0))
    /\ items[2].result.value.item = "EndOfStream"
    /\ items[3] = items[2]
    /\ reader[1].input.data # <<>>

(***************************************************************************)
(* The raw binary 1.1 struct: its fields as they are encoded, each a field *)
(* name (a symbol address, or in FlexSym mode also inline text) and what   *)
(* stands in value position, a value or NOP padding.                       *)
(***************************************************************************)
EncodedField(name, value) == [name |-> name, value |-> value]

\* The struct handle: the encoding of the field names and the encoded fields.
RawBinaryStruct(flex_sym, fields) == [flex_sym |-> flex_sym, fields |-> fields]

\* LazyRawBinaryStruct_1_1::iter
raw_struct_iter(self) == [source |-> self.fields, cursor |-> 0]

RECURSIVE raw_struct_next(_)

\* An iterator that takes NOP padding in value position for the end of the
\* struct.
raw_struct_next_field_nop_ends(it, field) ==
    IF is_nop(field.value.opcode)
    THEN [it |-> [it EXCEPT !.cursor = @ + 1], result |-> FieldNone]
    ELSE [it |-> [it EXCEPT !.cursor = @ + 1],
          result |-> [r |-> "Expr", expr |-> NameValue(field.name, field.value)]]

\* The iterator read the field name and what is in value position.
raw_struct_next_field(it, field) ==
    IF is_nop(field.value.opcode)
    THEN raw_struct_next([it EXCEPT !.cursor = @ + 1])
    ELSE [it |-> [it EXCEPT !.cursor = @ + 1],
          result |-> [r |-> "Expr", expr |-> NameValue(field.name, field.value)]]

\* The raw struct iterator's next()
raw_struct_next(it) ==
    IF it.cursor = Len(it.source)
    THEN [it |-> it, result |-> FieldNone]
    ELSE raw_struct_next_field(it, it.source[it.cursor + 1])

\* Encoded fields with a symbol address for a name.
AddressFields ==
    { EncodedField(SymbolId(10), Encoded("Int", 2)),
      EncodedField(SymbolId(11), Encoded("Float", 1)),
      EncodedField(SymbolId(10), Encoded("NOP", 1)),
      EncodedField(SymbolId(11), Encoded("NOP", 1)) }

\* Encoded fields with an inline text name.
FlexSymFields ==
    { EncodedField(Text("foo"), Encoded("Int", 2)),
      EncodedField(Text("foo"), Encoded("NOP", 1)) }

BinaryStructs ==
    {RawBinaryStruct(FALSE, f) : f \in SeqsUpTo(AddressFields, MaxItems)}
    \cup {RawBinaryStruct(TRUE, f) : f \in SeqsUpTo(AddressFields \cup FlexSymFields, MaxItems)}

InitBinaryStruct ==
    /\ ExpandingIdle
    /\ SerializingIdle
    /\ WritingIdle
    /\ SequencesIdle
    /\ ReadingIdle
    /\ MacrosIdle
    /\ ComparingIdle
    /\ consumes_trailing_nop = FALSE
    /\ reader = <<>>
    /\ items = <<>>
    /\ binary_struct \in BinaryStructs
    /\ fields_iterator = <<>>
    /\ raw_fields = <<>>

\* let fields = raw_struct.iter()
RawStructIter ==
    /\ fields_iterator = <<>>
    /\ fields_iterator' = <<raw_struct_iter(binary_struct)>>
    /\ UNCHANGED <<expanding, serializing, writing, sequences, reading, macros, comparing, consumes_trailing_nop, reader, items,
                   binary_struct, raw_fields>>

\* fields.next()
RawStructNext ==
    /\ fields_iterator # <<>>
    /\ Terminals(raw_fields) < MaxTerminals
    /\ LET n == raw_struct_next(fields_iterator[1])
       IN  /\ fields_iterator' = <<n.it>>
           /\ raw_fields' = Append(raw_fields, [pos |-> n.it.cursor, result |-> n.result])
    /\ UNCHANGED <<expanding, serializing, writing, sequences, reading, macros, comparing, consumes_trailing_nop, reader, items, binary_struct>>

NextBinaryStruct == RawStructIter \/ RawStructNext

SpecBinaryStruct == InitBinaryStruct /\ [][NextBinaryStruct]_vars

\* The encoded fields of the struct that have a value, in their order.
RealFields ==
    LET real == SelectSeq(binary_struct.fields, LAMBDA f : f.value.opcode # "NOP")
    IN  [i \in 1..Len(real) |-> NameValue(real[i].name, real[i].value)]

\* The field expressions the raw struct iterator has yielded.
RawFieldsYielded ==
    LET got == SelectSeq(raw_fields, LAMBDA e : e.result.r = "Expr")
    IN  [i \in 1..Len(got) |-> got[i].result.expr]

\* C22: a field of a binary 1.1 struct with NOP padding in value position
\* is skipped, name and all: the struct's iterator yields the fields that
\* have a value, in their original order, and nothing else, and ends only
\* after the last of them, wherever the padded fields are and whether the
\* names are symbol addresses or FlexSyms.
C22_NopFieldsAreSkipped ==
    /\ IsPrefix(RawFieldsYielded, RealFields)
    /\ \A i \in DOMAIN raw_fields :
            /\ raw_fields[i].result.r \in {"Expr", "None"}
            /\ raw_fields[i].result.r = "Expr" =>
                    raw_fields[i].result.expr.value.opcode # "NOP"
            /\ raw_fields[i].result.r = "None" =>
                    /\ RawFieldsYielded = RealFields
                    /\ \A j \in i..Len(raw_fields) : raw_fields[j].result.r = "None"

\* C22, witness: { "foo": <NOP>, $11: 0e0, $10: <NOP> } has yielded $11 and
\* then None.
C22_Witness ==
    /\ binary_struct = RawBinaryStruct(TRUE,
            <<EncodedField(Text("foo"), Encoded("NOP", 1)),
              EncodedField(SymbolId(11), Encoded("Float", 1)),
              EncodedField(SymbolId(10), Encoded("NOP", 1))>>)
    /\ Len(raw_fields) = 2
    /\ raw_fields[1].result.expr = NameValue(SymbolId(11), Encoded("Float", 1))
    /\ raw_fields[2].result = FieldNone

(***************************************************************************)
(* Macro ids and their resolution against a macro table                    *)
(* (src/lazy/text/raw/v1_1/reader.rs).  A macro definition lives at a      *)
(* place in memory, `ptr`; two definitions can be alike in name and body   *)
(* and still be two definitions.                                           *)
(***************************************************************************)
MacroDef(ptr, name, body) == [ptr |-> ptr, name |-> name, body |-> body]

\* std::ptr::addr_eq
addr_eq(a, b) == a.ptr = b.ptr

\* A usize of 64 bits, as its upper and its lower 32 bits.
usize(hi, lo) == [hi |-> hi, lo |-> lo]

\* The names of the system macros at the addresses 0x00 to 0x17.
SystemMacroNames ==
    << "none", "values", "default", "meta", "repeat", "flatten", "delta", "sum",
       "annotate", "make_string", "make_symbol", "make_decimal", "make_timestamp",
       "make_blob", "make_list", "make_sexp", "make_field", "make_struct", "parse_ion",
       "set_symbols", "add_symbols", "set_macros", "add_macros", "use" >>

\* The preloaded table of system macros, in memory apart from every definition of the user.
ION_1_1_SYSTEM_MACROS ==
    [i \in 1..Len(SystemMacroNames) |->
        MacroDef(0 - i, <<SystemMacroNames[i]>>, "native")]

\* MacroTable::macro_at_address: <<>> is None.
macro_at_address(table, address) ==
    IF address < Len(table) THEN <<table[address + 1]>> ELSE <<>>

\* MacroTable::address_for_id, for a name: <<>> is None.
address_for_id(table, name) ==
    IF \E i \in DOMAIN table : table[i].name = <<name>>
    THEN <<(CHOOSE i \in DOMAIN table : table[i].name = <<name>>) - 1>>
    ELSE <<>>

\* MacroIdRef
LocalName(name) == [id |-> "LocalName", name |-> name]
LocalAddress(address) == [id |-> "LocalAddress", address |-> address]
SystemAddress(address) == [id |-> "SystemAddress", system_address |-> address]

\* SystemMacroAddress::new: <<>> is None.
SystemMacroAddress_new(address) ==
    IF address.hi = 0 /\ address.lo < Len(ION_1_1_SYSTEM_MACROS)
    THEN <<address.lo>> ELSE <<>>

\* SystemMacroAddress::as_usize
as_usize(address) == usize(0, address)

\* QualifiedAddress::new: the address is to fit in a u32.
QualifiedAddress_new(module, address) ==
    IF address.hi # 0 THEN Panic ELSE [module |-> module, address |-> address.lo]

MacroRef_new(qualified_address, macro_def) ==
    [address |-> qualified_address, def |-> macro_def]

IllegalOperation(message) == [kind |-> "IllegalOperation", message |-> message]
EncodingError(message) == [kind |-> "EncodingError", message |-> message]

\* MacroIdLike::resolve, from the qualified address on.
resolve_qualified_in(qualified_address, table, system_macros) ==
    IF macro_at_address(IF qualified_address.module = "Default" THEN table ELSE system_macros,
                        qualified_address.address) = <<>>
    THEN Failure(EncodingError("no macro with the specified ID found"))
    ELSE Ok(MacroRef_new(qualified_address,
                         macro_at_address(IF qualified_address.module = "Default"
                                          THEN table ELSE system_macros,
                                          qualified_address.address)[1]))

\* A resolve that looks every id up in the table it is handed.
resolve_id_in_one_table(id, table, system_macros) ==
    CASE id.id = "LocalName" /\ address_for_id(table, id.name) = <<>> ->
            Failure(IllegalOperation("macro table does not contain a macro with that name"))
      [] id.id = "LocalName" /\ address_for_id(table, id.name) # <<>> ->
            resolve_qualified_in(
                QualifiedAddress_new("Default", usize(0, address_for_id(table, id.name)[1])),
                table, system_macros)
      [] id.id = "LocalAddress" /\ QualifiedAddress_new("Default", id.address) = Panic -> Panic
      [] id.id = "LocalAddress" /\ QualifiedAddress_new("Default", id.address) # Panic ->
            resolve_qualified_in(QualifiedAddress_new("Default", id.address), table, system_macros)
      [] id.id = "SystemAddress" ->
            resolve_qualified_in(QualifiedAddress_new("System", as_usize(id.system_address)),
                                 table, table)

\* MacroIdLike::resolve, with the system macro table it refers to.
resolve_id_in(id, table, system_macros) ==
    CASE id.id = "LocalName" /\ address_for_id(table, id.name) = <<>> ->
            Failure(IllegalOperation("macro table does not contain a macro with that name"))
      [] id.id = "LocalName" /\ address_for_id(table, id.name) # <<>> ->
            resolve_qualified_in(
                QualifiedAddress_new("Default", usize(0, address_for_id(table, id.name)[1])),
                table, system_macros)
      [] id.id = "LocalAddress" /\ QualifiedAddress_new("Default", id.address) = Panic -> Panic
      [] id.id = "LocalAddress" /\ QualifiedAddress_new("Default", id.address) # Panic ->
            resolve_qualified_in(QualifiedAddress_new("Default", id.address), table, system_macros)
      [] id.id = "SystemAddress" ->
            resolve_qualified_in(QualifiedAddress_new("System", as_usize(id.system_address)),
                                 table, system_macros)

\* MacroIdLike::resolve
resolve_id(id, table) == resolve_id_in(id, table, ION_1_1_SYSTEM_MACROS)

\* <QualifiedAddress as MacroIdLike>::resolve
resolve_address(self, table) ==
    IF (IF self.module = "Default"
        THEN macro_at_address(table, self.address)
        ELSE macro_at_address(ION_1_1_SYSTEM_MACROS, self.address)) = <<>>
    THEN Failure(EncodingError("could not find macro with that ID"))
    ELSE Ok(MacroRef_new(self,
                         (IF self.module = "Default"
                          THEN macro_at_address(table, self.address)
                          ELSE macro_at_address(ION_1_1_SYSTEM_MACROS, self.address))[1]))

\* Macro: the handle on a definition at an address of a module.
Macro(module, address, definition) ==
    [module |-> module, address |-> address, definition |-> definition]

\* Macro::qualified_address
qualified_address(self) == [module |-> self.module, address |-> self.address]

\* A resolve that takes a definition alike in name and body for the same.
resolve_macro_by_equality(self, table) ==
    IF macro_at_address(table, self.address) = <<>>
    THEN Failure(EncodingError("used a Macro that is no longer in the macro table"))
    ELSE IF macro_at_address(table, self.address)[1].name # self.definition.name
            \/ macro_at_address(table, self.address)[1].body # self.definition.body
    THEN Failure(EncodingError("used a stale Macro reference"))
    ELSE Ok(MacroRef_new(qualified_address(self), macro_at_address(table, self.address)[1]))

\* <&Macro as MacroIdLike>::resolve
resolve_macro(self, table) ==
    IF macro_at_address(table, self.address) = <<>>
    THEN Failure(EncodingError("used a Macro that is no longer in the macro table"))
    ELSE IF ~addr_eq(macro_at_address(table, self.address)[1], self.definition)
    THEN Failure(EncodingError("used a stale Macro reference"))
    ELSE Ok(MacroRef_new(qualified_address(self), macro_at_address(table, self.address)[1]))

\* Macro definitions of the user: foo, a second definition just like foo,
\* a macro without a name, and bar.
foo == MacroDef(1, <<"foo">>, "x")
foo_again == MacroDef(2, <<"foo">>, "x")
nameless == MacroDef(3, <<>>, "y")
bar == MacroDef(4, <<"bar">>, "z")

MacroTables ==
    { <<>>, <<foo>>, <<foo_again>>, <<nameless, foo>>, <<foo, nameless>>, <<bar, foo, nameless>> }

MacroIdRefs ==
    { LocalName("foo"), LocalName("zzz"), LocalName("values"),
      LocalAddress(usize(0, 0)), LocalAddress(usize(0, 1)), LocalAddress(usize(0, 17)),
      LocalAddress(usize(1, 0)),
      SystemAddress(1), SystemAddress(17) }

\* Qualified addresses; QualifiedAddress::new has taken them with a usize of 32 bits at most.
QualifiedAddresses ==
    {QualifiedAddress_new(m, usize(0, a)) : m \in {"Default", "System"}, a \in {0, 1, 17, 30}}

InitMacros ==
    /\ ExpandingIdle
    /\ SerializingIdle
    /\ WritingIdle
    /\ SequencesIdle
    /\ ReadingIdle
    /\ BinaryIdle
    /\ ComparingIdle
    /\ macro_table \in MacroTables
    /\ the_macro = <<>>
    /\ resolution = <<>>

\* The macro table hands out a handle on one of its macros.
GetMacro ==
    /\ the_macro = <<>>
    /\ \E a \in 0..(Len(macro_table) - 1) :
            the_macro' = <<Macro("Default", a, macro_table[a + 1])>>
    /\ UNCHANGED <<expanding, serializing, writing, sequences, reading, binary, comparing, macro_table, resolution>>

\* The system macro table hands out a handle on one of its macros.
GetSystemMacro ==
    /\ the_macro = <<>>
    /\ \E a \in {1, 17} :
            the_macro' = <<Macro("System", a, ION_1_1_SYSTEM_MACROS[a + 1])>>
    /\ UNCHANGED <<expanding, serializing, writing, sequences, reading, binary, comparing, macro_table, resolution>>

\* Between two top-level values the user macro table is replaced.
SetMacros ==
    /\ \E table \in MacroTables \ {macro_table} : macro_table' = table
    /\ UNCHANGED <<expanding, serializing, writing, sequences, reading, binary, comparing, the_macro, resolution>>

\* macro.resolve(&macro_table)
ResolveMacro ==
    /\ the_macro # <<>>
    /\ resolution' = <<[what |-> the_macro[1], table |-> macro_table,
                        result |-> resolve_macro(the_macro[1], macro_table)]>>
    /\ UNCHANGED <<expanding, serializing, writing, sequences, reading, binary, comparing, macro_table, the_macro>>

\* id.resolve(&macro_table)
ResolveId ==
    /\ \E id \in MacroIdRefs :
            resolution' = <<[what |-> id, table |-> macro_table,
                            result |-> resolve_id(id, macro_table)]>>
    /\ UNCHANGED <<expanding, serializing, writing, sequences, reading, binary, comparing, macro_table, the_macro>>

\* qualified_address.resolve(&macro_table)
ResolveAddress ==
    /\ \E qa \in QualifiedAddresses :
            resolution' = <<[what |-> qa, table |-> macro_table,
                            result |-> resolve_address(qa, macro_table)]>>
    /\ UNCHANGED <<expanding, serializing, writing, sequences, reading, binary, comparing, macro_table, the_macro>>

NextMacros ==
    GetMacro \/ GetSystemMacro \/ SetMacros \/ ResolveMacro \/ ResolveId \/ ResolveAddress

SpecMacros == InitMacros /\ [][NextMacros]_vars

\* What the latest resolve call was made on.
ResolvedMacro == resolution # <<>> /\ "definition" \in DOMAIN resolution[1].what
ResolvedId == resolution # <<>> /\ "id" \in DOMAIN resolution[1].what
ResolvedAddress ==
    /\ resolution # <<>>
    /\ "module" \in DOMAIN resolution[1].what
    /\ "definition" \notin DOMAIN resolution[1].what

\* The table holds, at the address of the macro, the very definition of the macro.
HoldsTheDefinition(table, macro) ==
    /\ macro.address < Len(table)
    /\ table[macro.address + 1].ptr = macro.definition.ptr

\* The table holds, at the address of the macro, a definition with its name and body.
HoldsALikeDefinition(table, macro) ==
    /\ macro.address < Len(table)
    /\ table[macro.address + 1].name = macro.definition.name
    /\ table[macro.address + 1].body = macro.definition.body

\* C25: resolving a macro handle against a table succeeds exactly when the
\* table holds, at the address of the macro, the identical definition (the
\* same place in memory, however alike two definitions are); it then gives
\* that definition under the qualified address of the macro.  When the
\* table has no macro at the address, or another definition, it fails.
C25_MacroResolvesToItsOwnDefinition ==
    ResolvedMacro =>
        IF HoldsTheDefinition(resolution[1].table, resolution[1].what)
        THEN resolution[1].result =
                Ok(MacroRef_new([module |-> resolution[1].what.module,
                                 address |-> resolution[1].what.address],
                                resolution[1].what.definition))
        ELSE is_err(resolution[1].result)

\* A macro handle was resolved against a table that holds, at the address of
\* the macro, another definition with the same name and body.
C25_Witness ==
    /\ ResolvedMacro
    /\ HoldsALikeDefinition(resolution[1].table, resolution[1].what)
    /\ ~HoldsTheDefinition(resolution[1].table, resolution[1].what)
    /\ is_err(resolution[1].result)

\* The id names no macro of the table, or its address holds no macro.
Unresolvable(id, table) ==
    \/ id.id = "LocalName" /\ \A i \in DOMAIN table : table[i].name # <<id.name>>
    \/ id.id = "LocalAddress" /\ (id.address.hi # 0 \/ id.address.lo >= Len(table))
    \/ id.id = "SystemAddress" /\ id.system_address >= Len(ION_1_1_SYSTEM_MACROS)

\* C26: resolving a macro id whose name is not in the table, or whose
\* address holds no macro, gives an error: not a panic, not a macro.
C26_UnresolvableIdIsAnError ==
    (ResolvedId /\ Unresolvable(resolution[1].what, resolution[1].table))
        => is_err(resolution[1].result)

\* The macro the system macro table holds at the address: <<>> is None.
SystemMacroAt(address) ==
    IF address < Len(SystemMacroNames) THEN <<ION_1_1_SYSTEM_MACROS[address + 1]>> ELSE <<>>

\* The result is the definition under the address `address` of `module`,
\* or an error when there is none.
ResultIs(result, module, address, definition) ==
    IF definition = <<>> THEN is_err(result)
    ELSE result = Ok(MacroRef_new([module |-> module, address |-> address], definition[1]))

\* C27: a system macro id is resolved against the system macro table and a
\* local name or address against the user table, whatever the other table
\* holds: a system address gives the system macro at that address of any
\* user table, a local name or address gives the macro of the user table
\* (or fails) whatever the system macros are.
C27_EachIdInItsOwnTable ==
    /\ (ResolvedId /\ resolution[1].what.id = "SystemAddress") =>
            /\ ResultIs(resolution[1].result, "System", resolution[1].what.system_address,
                        SystemMacroAt(resolution[1].what.system_address))
            /\ \A other \in MacroTables :
                    resolve_id(resolution[1].what, other) = resolution[1].result
    /\ (ResolvedId /\ resolution[1].what.id = "LocalAddress"
            /\ resolution[1].what.address.hi = 0) =>
            /\ ResultIs(resolution[1].result, "Default", resolution[1].what.address.lo,
                        macro_at_address(resolution[1].table, resolution[1].what.address.lo))
            /\ resolve_id_in(resolution[1].what, resolution[1].table, <<>>)
                    = resolution[1].result
    /\ (ResolvedId /\ resolution[1].what.id = "LocalName") =>
            /\ IF address_for_id(resolution[1].table, resolution[1].what.name) = <<>>
               THEN is_err(resolution[1].result)
               ELSE ResultIs(resolution[1].result, "Default",
                             address_for_id(resolution[1].table, resolution[1].what.name)[1],
                             macro_at_address(resolution[1].table,
                                 address_for_id(resolution[1].table,
                                                resolution[1].what.name)[1]))
            /\ resolve_id_in(resolution[1].what, resolution[1].table, <<>>)
                    = resolution[1].result
    /\ (ResolvedAddress /\ resolution[1].what.module = "System") =>
            ResultIs(resolution[1].result, "System", resolution[1].what.address,
                     SystemMacroAt(resolution[1].what.address))
    /\ (ResolvedAddress /\ resolution[1].what.module = "Default") =>
            ResultIs(resolution[1].result, "Default", resolution[1].what.address,
                     macro_at_address(resolution[1].table, resolution[1].what.address))

\* The system address 1 was resolved to the system macro `values` while the
\* user table holds the macro foo at the address 1.
C27_Witness ==
    /\ ResolvedId
    /\ resolution[1].what = SystemAddress(1)
    /\ Len(resolution[1].table) > 1
    /\ resolution[1].table[2] = foo
    /\ resolution[1].result.r = "Ok"
    /\ resolution[1].result.value.def.name = <<"values">>

\* The first field named `name` among `fields`: <<>> when there is none.
FirstNamed(fields, name) ==
    IF \E i \in DOMAIN fields : fields[i].name = name
    THEN <<fields[CHOOSE i \in DOMAIN fields :
                    /\ fields[i].name = name
                    /\ \A j \in 1..(i - 1) : fields[j].name # name]>>
    ELSE <<>>

\* What a scan of the fields `fields`, ended by `end`, finds under `name`.
ScanOf(fields, end, name) ==
    IF FirstNamed(fields, name) # <<>> THEN ValueSome(FirstNamed(fields, name)[1].value)
    ELSE IF end.r = "None" THEN ValueNone
    ELSE end

\* find(name) returns what a scan of the run of the struct's own iterator finds.
FindFollowsTheIterator ==
    (found # <<>> /\ struct.source # "Template") =>
        found[1].result = ScanOf(Collect(iter(struct)).fields, Collect(iter(struct)).end,
                                 found[1].name)

\* get_expected(name) fails with "did not find" exactly when find(name)
\* returned Ok(None); it returns the value find found, and the error of find.
GetExpectedFollowsFind ==
    found # <<>> =>
        /\ (found[1].expected = Failure("did not find expected struct field"))
                <=> (found[1].result = ValueNone)
        /\ found[1].result.r = "Value" =>
                found[1].expected = [r |-> "Ok", value |-> ExpandedValueRef(found[1].result.value)]
        /\ found[1].result.r \notin {"Value", "None"} => found[1].expected = found[1].result

\* C28: find(name) on a literal, make_field or make_struct struct returns
\* the value of the first of the struct's expanded fields, in order, named
\* `name`; Ok(None) when no field has the name; the first error when it
\* comes before a match.  get_expected(name) returns the "did not find"
\* error exactly when find returns Ok(None).
C28_FindScansTheExpandedFields ==
    /\ (found # <<>> /\ struct.source # "Template") =>
            found[1].result =
                ScanOf(ExpectedFields(struct).fields,
                       IF ExpectedFields(struct).err THEN ExpectedError(struct) ELSE ValueNone,
                       found[1].name)
    /\ GetExpectedFollowsFind

(***************************************************************************)
(* Equality of value references (src/lazy/value_ref.rs and                 *)
(* src/lazy/raw_value_ref.rs).  The payloads are compared with the         *)
(* equality of their own type; a float is an f64.                          *)
(***************************************************************************)

\* f64::eq: a NaN equals nothing, the two zeros are equal.
f64_eq(f1, f2) ==
    /\ f1 # "nan"
    /\ f2 # "nan"
    /\ (f1 = f2 \/ {f1, f2} = {"0.0", "-0.0"})

\* An equality that compares containers by their place in the input.
value_ref_eq_with_containers(self, other) ==
    CASE self.variant = "Float" /\ other.variant = "Float" -> f64_eq(self.payload, other.payload)
      [] self.variant # "Float" /\ self.variant = other.variant -> self.payload = other.payload
      [] OTHER -> FALSE

\* impl PartialEq for ValueRef
value_ref_eq(self, other) ==
    CASE self.variant = "Null" /\ other.variant = "Null" -> self.payload = other.payload
      [] self.variant = "Bool" /\ other.variant = "Bool" -> self.payload = other.payload
      [] self.variant = "Int" /\ other.variant = "Int" -> self.payload = other.payload
      [] self.variant = "Float" /\ other.variant = "Float" -> f64_eq(self.payload, other.payload)
      [] self.variant = "Decimal" /\ other.variant = "Decimal" -> self.payload = other.payload
      [] self.variant = "Timestamp" /\ other.variant = "Timestamp" ->
            self.payload = other.payload
      [] self.variant = "String" /\ other.variant = "String" -> self.payload = other.payload
      [] self.variant = "Symbol" /\ other.variant = "Symbol" -> self.payload = other.payload
      [] self.variant = "Blob" /\ other.variant = "Blob" -> self.payload = other.payload
      [] self.variant = "Clob" /\ other.variant = "Clob" -> self.payload = other.payload
      [] OTHER -> FALSE

\* impl PartialEq for RawValueRef
raw_value_ref_eq(self, other) ==
    CASE self.variant = "Null" /\ other.variant = "Null" -> self.payload = other.payload
      [] self.variant = "Bool" /\ other.variant = "Bool" -> self.payload = other.payload
      [] self.variant = "Int" /\ other.variant = "Int" -> self.payload = other.payload
      [] self.variant = "Float" /\ other.variant = "Float" -> f64_eq(self.payload, other.payload)
      [] self.variant = "Decimal" /\ other.variant = "Decimal" -> self.payload = other.payload
      [] self.variant = "Timestamp" /\ other.variant = "Timestamp" ->
            self.payload = other.payload
      [] self.variant = "String" /\ other.variant = "String" -> self.payload = other.payload
      [] self.variant = "Symbol" /\ other.variant = "Symbol" -> self.payload = other.payload
      [] self.variant = "Blob" /\ other.variant = "Blob" -> self.payload = other.payload
      [] self.variant = "Clob" /\ other.variant = "Clob" -> self.payload = other.payload
      [] OTHER -> FALSE

\* The payloads of the variants: two or more of each, a container as the
\* place of its bytes in the input.
Payloads ==
    [Null |-> {"null", "bool"}, Bool |-> {TRUE, FALSE}, Int |-> {1, 2},
     Float |-> {"2.5", "0.0", "-0.0", "nan"}, Decimal |-> {<<25, -1>>, <<250, -2>>},
     Timestamp |-> {<<2023, 4>>, <<2024, 1>>}, String |-> {"hello", "foo"},
     Blob |-> {<<6, 90, 27>>, <<67, 108>>}, Clob |-> {<<67, 108>>, <<6, 90, 27>>},
     SExp |-> {<<0, 4>>, <<4, 8>>}, List |-> {<<0, 4>>, <<4, 8>>},
     Struct |-> {<<0, 4>>, <<4, 8>>}]

ScalarVariants ==
    {"Null", "Bool", "Int", "Float", "Decimal", "Timestamp", "String", "Symbol", "Blob", "Clob"}

ContainerVariants == {"SExp", "List", "Struct"}

\* The values of the two kinds of reference; they differ in their symbols.
ValueRefs ==
    UNION {{ValueRef(v, pl) : pl \in Payloads[v]} : v \in DOMAIN Payloads}
    \cup {ValueRef("Symbol", SymbolRef(text)) : text \in {<<"foo">>, <<"hello">>, <<>>}}

RawValueRefs ==
    UNION {{RawValueRef(v, pl) : pl \in Payloads[v]} : v \in DOMAIN Payloads}
    \cup {RawValueRef("Symbol", rs) : rs \in RawSymbols}

InitComparing ==
    /\ ExpandingIdle
    /\ SerializingIdle
    /\ WritingIdle
    /\ SequencesIdle
    /\ ReadingIdle
    /\ BinaryIdle
    /\ MacrosIdle
    /\ \/ \E left \in ValueRefs, right \in ValueRefs :
            operands = <<[kind |-> "ValueRef", left |-> left, right |-> right]>>
       \/ \E left \in RawValueRefs, right \in RawValueRefs :
            operands = <<[kind |-> "RawValueRef", left |-> left, right |-> right]>>
    /\ equal = <<>>

\* left == right, on two ValueRefs
CompareValueRefs ==
    /\ equal = <<>>
    /\ operands[1].kind = "ValueRef"
    /\ equal' = <<value_ref_eq(operands[1].left, operands[1].right)>>
    /\ UNCHANGED <<expanding, serializing, writing, sequences, reading, binary, macros, operands>>

\* left == right, on two RawValueRefs
CompareRawValueRefs ==
    /\ equal = <<>>
    /\ operands[1].kind = "RawValueRef"
    /\ equal' = <<raw_value_ref_eq(operands[1].left, operands[1].right)>>
    /\ UNCHANGED <<expanding, serializing, writing, sequences, reading, binary, macros, operands>>

NextComparing == CompareValueRefs \/ CompareRawValueRefs

SpecComparing == InitComparing /\ [][NextComparing]_vars

\* The payloads of two values of one variant are equal, in the equality of
\* their type.
EqualPayload(variant, p1, p2) ==
    IF variant = "Float" THEN p1 # "nan" /\ p2 # "nan" /\ (p1 = p2 \/ {p1, p2} = {"0.0", "-0.0"})
    ELSE p1 = p2

\* C29: a ValueRef equals a ValueRef, and a RawValueRef a RawValueRef,
\* exactly when both are of the same scalar variant and their payloads are
\* equal; when either side is a list, an s-expression or a struct the
\* comparison is false, also that of a container with itself.
C29_EqualityIsOfScalarsOnly ==
    equal # <<>> =>
        /\ equal[1] <=>
                /\ operands[1].left.variant = operands[1].right.variant
                /\ operands[1].left.variant \in ScalarVariants
                /\ EqualPayload(operands[1].left.variant,
                                operands[1].left.payload, operands[1].right.payload)
        /\ (operands[1].left.variant \in ContainerVariants
                \/ operands[1].right.variant \in ContainerVariants) => ~equal[1]

\* A struct was compared with itself, and the comparison is false.
C29_Witness ==
    /\ equal = <<FALSE>>
    /\ operands[1].left.variant = "Struct"
    /\ operands[1].right.variant = "Struct"
    /\ operands[1].left.payload = operands[1].right.payload

\* The iterator has gone on from source position p, or has ended.
Finished(p) ==
    \E i \in DOMAIN ValidLog : ValidLog[i].pos > p \/ ValidLog[i].result.r = "None"

\* C30: an argument of make_struct that is a macro invocation contributes,
\* at its position, the fields of every struct it expands to, in the order
\* of the expansion, before the next argument is read; an invocation that
\* expands to nothing contributes no field, and the iteration ends only
\* when every argument has contributed its fields.
C30_MakeStructMacroArguments ==
    struct.source = "MakeStruct" =>
        /\ PositionsInOrder
        /\ \A p \in 1..Positions(struct) :
                struct.arguments[p].expr = "MacroInvocation" =>
                    /\ IsPrefix(FieldsAt(p), ExpectedRun(struct, p).fields)
                    /\ Finished(p) => FieldsAt(p) = ExpectedRun(struct, p).fields
        /\ \A i \in DOMAIN ValidLog :
                ValidLog[i].result.r = "None" =>
                    /\ ~ExpectedFields(struct).err
                    /\ LoggedFields = ExpectedFields(struct).fields

\* C30, witness: (:make_struct (:values {dog:1} {cat:2}) (:values) {a:1, b:2})
\* yielded dog:1, cat:2, a:1, b:2 and then None.
C30_Witness ==
    /\ struct = from_make_struct(<<MacroInvocation(values(<<s(dog), s(cat)>>)),
                                   MacroInvocation(values(<<>>)),
                                   s(a_b)>>)
    /\ Len(emitted) = 5
    /\ emitted[1].result = FieldSome("dog", IntValue(1))
    /\ emitted[2].result = FieldSome("cat", IntValue(2))
    /\ emitted[3].result = FieldSome("a", IntValue(1))
    /\ emitted[4].result = FieldSome("b", IntValue(2))
    /\ emitted[5].result = FieldNone

\* A field the log shows that no source position up to its own expands to:
\* something left over in the evaluator came out at a later position.
IsLeftOver(i) ==
    /\ emitted[i].result.r = "Field"
    /\ emitted[i].pos \in 1..Positions(struct)
    /\ \A j \in DOMAIN ExpectedRun(struct, emitted[i].pos).fields :
            ExpectedRun(struct, emitted[i].pos).fields[j] # AsField(emitted[i])

\* Between two calls of next() an iterator that reads its source holds no frames.
NoFramesWhileReading ==
    (iterator # <<>> /\ iterator[1].state = ReadingFieldFromSource)
        => is_empty(iterator[1].source.evaluator)

\* C31: between calls of next(), whenever the state of the iterator of a
\* struct literal or template struct is ReadingFieldFromSource its evaluator
\* holds no frames, so that nothing a field's macro left behind, be it after
\* a macro of several structs or after a non-struct error, is emitted at a
\* later field.
C31_NoFramesWhileReadingTheSource ==
    IsFieldSource =>
        /\ NoFramesWhileReading
        /\ \A i \in DOMAIN emitted : ~IsLeftOver(i)

\* C32: on a template-backed struct find(name) returns what a linear scan
\* of iter() returns for the first field named `name`; when the first field
\* expression of that name is a macro that expands to no value, it returns
\* the value of the next field of that name.
C32_TemplateFindIsALinearScan ==
    (found # <<>> /\ struct.source = "Template") =>
        found[1].result = ScanOf(Collect(iter(struct)).fields, Collect(iter(struct)).end,
                                 found[1].name)

\* What the source of the iterator would hand out next is no macro.
SourceHandsOutNameValue ==
    source_next_field(iterator[1].source).result.r = "Expr"
        => source_next_field(iterator[1].source).result.expr.field = "NameValue"

\* C33: the iterator of a make_field or make_struct struct gets only
\* NameValue expressions from its source; between calls its state is
\* ReadingFieldFromSource, and no call ends in the unreachable!() of
\* evaluator() on a MakeField source.
C33_MadeStructsOnlyReadTheirSource ==
    (struct.source \in {"MakeField", "MakeStruct"} /\ iterator # <<>>) =>
        /\ SourceHandsOutNameValue
        /\ iterator[1].state = ReadingFieldFromSource
        /\ \A i \in DOMAIN emitted : emitted[i].result.r # "Panic"

\* C33, witness: the iterator of (:make_field a {dog: 1}) has yielded its field.
C33_Witness ==
    /\ struct = from_make_field(LazyExpandedField("a", StructValue(dog)))
    /\ iterator # <<>>
    /\ Len(emitted) = 1
    /\ emitted[1].result = FieldSome("a", StructValue(dog))
    /\ iterator[1].state = ReadingFieldFromSource

(***************************************************************************)
(* RawBinarySequenceIterator_1_1 (src/lazy/binary/raw/v1_1/sequence.rs).   *)
(* The input is a sequence of bytes; a byte read as an opcode tells the    *)
(* value that starts there and how many bytes it takes, ends a delimited   *)
(* container, or is no opcode.                                             *)
(***************************************************************************)
MaxBytes == 3     \* bytes of the body of a sequence
MaxOffsets == 3   \* cached offsets of a delimited sequence
MaxCalls == 4     \* calls of next() on one iterator

\* ImmutableBuffer
ImmutableBuffer(data, offset) == [data |-> data, offset |-> offset]

\* ImmutableBuffer::consume; with more bytes than the buffer holds it
\* panics, or stops at the end of the buffer.
buffer_consume(buffer, num_bytes) ==
    IF num_bytes <= Len(buffer.data)
    THEN ImmutableBuffer(SubSeq(buffer.data, num_bytes + 1, Len(buffer.data)),
                         buffer.offset + num_bytes)
    ELSE IF consume_past_end = "panics" THEN Panic
    ELSE ImmutableBuffer(<<>>, buffer.offset + Len(buffer.data))

\* ImmutableBuffer::peek_opcode
buffer_peek_opcode(buffer) ==
    IF buffer.data = <<>> THEN Failure("Incomplete")
    ELSE IF Head(buffer.data).opcode = "Invalid" THEN Failure("invalid opcode")
    ELSE Ok(Head(buffer.data).opcode)

\* LazyRawValueExpr: the value expression at `at`, `length` bytes long.
LazyRawValueExpr(opcode, at, length) == [expr |-> opcode, at |-> at, length |-> length]

\* ImmutableBuffer::peek_sequence_value_expr
peek_sequence_value_expr(buffer) ==
    IF buffer.data = <<>> THEN ValueNone
    ELSE IF Head(buffer.data).opcode = "Invalid" THEN Failure("invalid opcode")
    ELSE IF Head(buffer.data).length > Len(buffer.data) THEN Failure("Incomplete")
    ELSE ValueSome(LazyRawValueExpr(Head(buffer.data).opcode, buffer.offset,
                                    Head(buffer.data).length))

\* RawBinarySequenceIterator_1_1::new; <<>> is no delimited offsets.
RawBinarySequenceIterator_1_1_new(input, delimited_offsets) ==
    [source |-> input, bytes_to_skip |-> 0, delimited_offsets |-> delimited_offsets]

\* next() of a delimited sequence: the value at the first cached offset,
\* as peek_sequence_value_expr read it from `input`.
next_delimited_value(self, offsets, input) ==
    CASE buffer_peek_opcode(input).r = "Err" -> [it |-> self, result |-> buffer_peek_opcode(input)]
      [] buffer_peek_opcode(input) = Ok("DelimitedContainerClose") ->
            [it |-> self, result |-> ValueNone]
      [] OTHER ->
            IF peek_sequence_value_expr(input).r = "Value"
            THEN [it |-> [self EXCEPT !.delimited_offsets = <<Tail(offsets)>>],
                  result |-> peek_sequence_value_expr(input)]
            ELSE [it |-> self, result |-> peek_sequence_value_expr(input)]

\* A next() of a delimited sequence that goes on to the next offset whatever it read.
next_delimited_always_advances(self, offsets) ==
    IF Len(offsets) <= 1 THEN [it |-> self, result |-> ValueNone]
    ELSE IF buffer_consume(self.source, Head(offsets) - self.source.offset) = Panic
    THEN [it |-> self, result |-> Panic]
    ELSE [it |-> [self EXCEPT !.delimited_offsets = <<Tail(offsets)>>],
          result |-> next_delimited_value(
                        self, offsets,
                        buffer_consume(self.source, Head(offsets) - self.source.offset)).result]

\* RawBinarySequenceIterator_1_1::next, with delimited offsets
next_delimited(self, offsets) ==
    IF Len(offsets) <= 1 THEN [it |-> self, result |-> ValueNone]
    ELSE IF buffer_consume(self.source, Head(offsets) - self.source.offset) = Panic
    THEN [it |-> self, result |-> Panic]
    ELSE next_delimited_value(self, offsets,
                              buffer_consume(self.source, Head(offsets) - self.source.offset))

\* next() of a length-prefixed sequence, after `self.source = self.source.consume(..)`.
next_length_prefixed_peek(self) ==
    IF peek_sequence_value_expr(self.source).r = "Value"
    THEN [it |-> [self EXCEPT !.bytes_to_skip = peek_sequence_value_expr(self.source).value.length],
          result |-> peek_sequence_value_expr(self.source)]
    ELSE [it |-> self, result |-> peek_sequence_value_expr(self.source)]

\* RawBinarySequenceIterator_1_1::next, without delimited offsets
next_length_prefixed(self) ==
    IF buffer_consume(self.source, self.bytes_to_skip) = Panic
    THEN [it |-> self, result |-> Panic]
    ELSE next_length_prefixed_peek(
            [self EXCEPT !.source = buffer_consume(self.source, self.bytes_to_skip)])

\* RawBinarySequenceIterator_1_1::next
raw_sequence_next(self) ==
    IF self.delimited_offsets # <<>>
    THEN next_delimited(self, self.delimited_offsets[1])
    ELSE next_length_prefixed(self)

\* The bytes: a null of one byte, an int of two bytes, the end of a
\* delimited container, a byte that is no opcode.
Bytes ==
    { Encoded("Null", 1), Encoded("Int", 2), Encoded("DelimitedContainerClose", 1),
      Encoded("Invalid", 1) }

ValueBytes == {b \in Bytes : b.opcode # "DelimitedContainerClose"}

\* The increasing sequences of up to n of the offsets first..last.
RECURSIVE Increasing(_, _, _)
Increasing(first, last, n) ==
    IF n = 0 \/ first > last THEN {<<>>}
    ELSE {<<>>} \cup UNION {{<<o>> \o rest : rest \in Increasing(o + 1, last, n - 1)} :
                                o \in first..last}

InitRawSequence ==
    /\ ExpandingIdle
    /\ SerializingIdle
    /\ WritingIdle
    /\ ReadingIdle
    /\ BinaryIdle
    /\ MacrosIdle
    /\ ComparingIdle
    /\ consume_past_end \in {"panics", "clamps"}
    /\ \E start \in {0, 5} :
        \/ /\ encoded \in SeqsUpTo(ValueBytes, MaxBytes)
           /\ raw_iterator =
                <<RawBinarySequenceIterator_1_1_new(ImmutableBuffer(encoded, start), <<>>)>>
        \/ /\ encoded \in SeqsUpTo(Bytes, MaxBytes)
           /\ \E offsets \in Increasing(start, start + Len(encoded), MaxOffsets) :
                raw_iterator =
                    <<RawBinarySequenceIterator_1_1_new(ImmutableBuffer(encoded, start),
                                                        <<offsets>>)>>
    /\ raw_yielded = <<>>

\* iterator.next()
RawSequenceNext ==
    /\ Len(raw_yielded) < MaxCalls
    /\ \A i \in DOMAIN raw_yielded : raw_yielded[i].result # Panic
    /\ raw_iterator' = <<raw_sequence_next(raw_iterator[1]).it>>
    /\ raw_yielded' = Append(raw_yielded, [before |-> raw_iterator[1],
                                            result |-> raw_sequence_next(raw_iterator[1]).result,
                                            it |-> raw_sequence_next(raw_iterator[1]).it])
    /\ UNCHANGED <<expanding, serializing, writing, reading, binary, macros, comparing, encoded, consume_past_end>>

NextRawSequence == RawSequenceNext

SpecRawSequence == InitRawSequence /\ [][NextRawSequence]_vars

LengthPrefixed == raw_iterator[1].delimited_offsets = <<>>

\* The value expressions of the bytes `data` that start at the offset `at`,
\* up to the first place that holds no value.
RECURSIVE ValueExprs(_, _)
ValueExprs(data, at) ==
    IF data = <<>> \/ Head(data).opcode \in {"Invalid", "DelimitedContainerClose"}
                   \/ Head(data).length > Len(data)
    THEN <<>>
    ELSE <<LazyRawValueExpr(Head(data).opcode, at, Head(data).length)>>
            \o ValueExprs(SubSeq(data, Head(data).length + 1, Len(data)), at + Head(data).length)

\* The values the calls of next() returned.
RawValuesYielded ==
    [i \in 1..Len(SelectSeq(raw_yielded, LAMBDA e : e.result.r = "Value")) |->
        SelectSeq(raw_yielded, LAMBDA e : e.result.r = "Value")[i].result.value]

\* A call that follows a None returns None and leaves the cursor where it was.
NoneIsFinalInSequence ==
    \A i \in 2..Len(raw_yielded) :
        raw_yielded[i - 1].result = ValueNone =>
            /\ raw_yielded[i].result = ValueNone
            /\ raw_yielded[i].it.source = raw_yielded[i].before.source

\* A call that follows an error does not move the cursor over bytes again.
NoSkipAfterError ==
    \A i \in 2..Len(raw_yielded) :
        raw_yielded[i - 1].result.r = "Err" =>
            /\ raw_yielded[i].result # Panic
            /\ raw_yielded[i].it.source = raw_yielded[i].before.source

\* The values yielded are, in order and once each, the values of the body.
YieldedInOrder ==
    /\ IsPrefix(RawValuesYielded, ValueExprs(encoded, raw_yielded[1].before.source.offset))
    /\ \A i \in DOMAIN raw_yielded :
            raw_yielded[i].result = ValueNone =>
                RawValuesYielded = ValueExprs(encoded, raw_yielded[1].before.source.offset)

\* C34: on a length-prefixed sequence, once next() has returned None every
\* later call returns None and leaves the cursor where it is; a call made
\* after an error does not skip again the bytes that were skipped already;
\* every value of the sequence is yielded once, in order.
C34_LengthPrefixedResumes ==
    (LengthPrefixed /\ raw_yielded # <<>>) =>
        /\ NoneIsFinalInSequence
        /\ NoSkipAfterError
        /\ YieldedInOrder

Delimited == raw_iterator[1].delimited_offsets # <<>>

\* The cached offsets the iterator was made with.
CachedOffsets == raw_yielded[1].before.delimited_offsets[1]

\* The opcode of the byte at the offset `at` is the end of a delimited container.
ClosesAt(before, at) ==
    /\ at - before.source.offset < Len(before.source.data)
    /\ before.source.data[at - before.source.offset + 1].opcode = "DelimitedContainerClose"

\* What one call of next() did with the offsets it found.
FollowsItsOffsets(e, offsets) ==
    /\ e.result # Panic
    /\ e.result.r = "Value" =>
            /\ e.result.value.at = Head(offsets)
            /\ e.it = [e.before EXCEPT !.delimited_offsets = <<Tail(offsets)>>]
    /\ e.result.r # "Value" => e.it = e.before
    /\ Len(offsets) <= 1 => e.result = ValueNone
    /\ (Len(offsets) > 1 /\ ClosesAt(e.before, Head(offsets))) => e.result = ValueNone

\* C35: a delimited sequence iterator with the cached offsets o1..om yields
\* the value expressions at o1, o2, ... in that order, moves on by one offset
\* only when it yields a value, yields at most m-1 values, and returns None
\* and stays as it is when at most one offset is left or the opcode at the
\* next offset ends a delimited container.
C35_DelimitedFollowsItsOffsets ==
    (Delimited /\ raw_yielded # <<>>) =>
        /\ \A i \in DOMAIN raw_yielded :
                FollowsItsOffsets(raw_yielded[i], raw_yielded[i].before.delimited_offsets[1])
        /\ Len(RawValuesYielded) = 0 \/ Len(RawValuesYielded) < Len(CachedOffsets)
        /\ \A k \in DOMAIN RawValuesYielded : RawValuesYielded[k].at = CachedOffsets[k]

\* Two values were yielded, then the iterator ended at its last offset.
C35_Witness ==
    /\ Delimited
    /\ Len(RawValuesYielded) = 2
    /\ Len(raw_yielded) > 2
    /\ raw_yielded[Len(raw_yielded)].result = ValueNone
    /\ Len(raw_iterator[1].delimited_offsets[1]) = 1

\* One value was yielded, then the iterator ended at the end of the container.
DelimitedEndsAtClose ==
    /\ Delimited
    /\ Len(RawValuesYielded) = 1
    /\ raw_yielded[Len(raw_yielded)].result = ValueNone
    /\ Len(raw_iterator[1].delimited_offsets[1]) = 2

\* ---------------------------------------------------------------------
\* The binary 1.1 container writers (container_writers.rs).  A buffer is
\* a sequence of bytes, 0..255.  A writer holds a reference to the buffer
\* of its parent: the operations take that buffer with the writer and
\* return both.
\* ---------------------------------------------------------------------

MaxWrites == 3    \* values or fields written through one writer

\* `a | b` of two u8
RECURSIVE bit_or(_, _)
bit_or(a, b) ==
    IF a = 0 THEN b
    ELSE IF b = 0 THEN a
    ELSE (IF a % 2 = 1 \/ b % 2 = 1 THEN 1 ELSE 0) + 2 * bit_or(a \div 2, b \div 2)

\* FlexUInt::write, of a value below 2^14: the value, shifted left by the
\* number of bytes, with the lowest bit of the last shift set, little-endian.
FlexUInt_write(buffer, value) ==
    IF value < 128 THEN Append(buffer, 2 * value + 1)
    ELSE buffer \o <<(4 * value + 2) % 256, (4 * value + 2) \div 256>>

\* FlexInt::encode_i64, of a value in -64..8191
FlexInt_encode_i64(buffer, value) ==
    IF value >= 0 - 64 /\ value < 64 THEN Append(buffer, (2 * value + 1) % 256)
    ELSE buffer \o <<(4 * value + 2) % 256, (4 * value + 2) \div 256>>

\* FlexSym::encode_symbol: a symbol ID as a FlexInt, a text as the FlexInt of
\* minus its length and its bytes, and the escape 0x01 and an opcode for $0
\* and for the empty text.
FlexSym_encode_symbol(buffer, name_ref) ==
    CASE name_ref.symbol = "SymbolId" /\ name_ref.sid # 0 ->
            FlexInt_encode_i64(buffer, name_ref.sid)
      [] name_ref.symbol = "Text" /\ name_ref.text # <<>> ->
            FlexInt_encode_i64(buffer, 0 - Len(name_ref.text)) \o name_ref.text
      [] name_ref.symbol = "SymbolId" -> buffer \o <<1, 96>>
      [] OTHER -> buffer \o <<1, 117>>

\* A writer together with the buffer of its parent.
Writing(self, buffer) == [self |-> self, buffer |-> buffer]

\* BinaryContainerWriter_1_1::new_delimited
BinaryContainerWriter_1_1_new_delimited(start_opcode, buffer) ==
    Writing([encoder |-> [kind |-> "Delimited"]], Append(buffer, start_opcode))

\* BinaryContainerWriter_1_1::new_length_prefixed
BinaryContainerWriter_1_1_new_length_prefixed(type_code, flex_len_type_code, buffer) ==
    Writing([encoder |-> [kind |-> "LengthPrefixed",
                          type_code |-> type_code,
                          flex_len_type_code |-> flex_len_type_code,
                          child_values_buffer |-> <<>>]],
            buffer)

\* ContainerEncodingKind::target_buffer
target_buffer(encoder, buffer) ==
    IF encoder.kind = "Delimited" THEN buffer ELSE encoder.child_values_buffer

\* The container writer and the buffer of its parent once the target buffer
\* holds `bytes`.
with_target_buffer(self, buffer, bytes) ==
    IF self.encoder.kind = "Delimited" THEN Writing(self, bytes)
    ELSE Writing([self EXCEPT !.encoder.child_values_buffer = bytes], buffer)

\* BinaryContainerWriter_1_1::write; `value` is the bytes that
\* value.write_as_ion(value_writer) writes.
container_write(self, buffer, value) ==
    with_target_buffer(self, buffer, target_buffer(self.encoder, buffer) \o value)

\* BinaryContainerWriter_1_1::end of a length-prefixed container that puts
\* its length in the opcode whatever the length is.
container_end_length_in_opcode(self, buffer) ==
    IF self.encoder.kind = "Delimited" THEN Append(buffer, 240)
    ELSE Append(buffer, bit_or(self.encoder.type_code,
                               Len(self.encoder.child_values_buffer) % 256))
            \o self.encoder.child_values_buffer

\* BinaryContainerWriter_1_1::end that does not write the end of a
\* delimited container.
container_end_without_delimiter(self, buffer) ==
    IF self.encoder.kind = "Delimited" THEN buffer
    ELSE IF Len(self.encoder.child_values_buffer) <= 15
    THEN Append(buffer, bit_or(self.encoder.type_code, Len(self.encoder.child_values_buffer)))
            \o self.encoder.child_values_buffer
    ELSE FlexUInt_write(Append(buffer, self.encoder.flex_len_type_code),
                        Len(self.encoder.child_values_buffer))
            \o self.encoder.child_values_buffer

\* BinaryContainerWriter_1_1::end; DELIMITED_END_OPCODE is 0xF0.
container_end(self, buffer) ==
    IF self.encoder.kind = "Delimited" THEN Append(buffer, 240)
    ELSE IF Len(self.encoder.child_values_buffer) <= 15
    THEN Append(buffer, bit_or(self.encoder.type_code, Len(self.encoder.child_values_buffer)))
            \o self.encoder.child_values_buffer
    ELSE FlexUInt_write(Append(buffer, self.encoder.flex_len_type_code),
                        Len(self.encoder.child_values_buffer))
            \o self.encoder.child_values_buffer

\* BinaryListWriter_1_1 and BinarySExpWriter_1_1: with_container_writer
SequenceWriter(container, made) ==
    Writing([container |-> container, container_writer |-> made.self], made.buffer)

\* BinaryListWriter_1_1::new_delimited, DELIMITED_LIST_OPCODE 0xF1
BinaryListWriter_1_1_new_delimited(buffer) ==
    SequenceWriter("list", BinaryContainerWriter_1_1_new_delimited(241, buffer))

\* BinaryListWriter_1_1::new_length_prefixed, type codes 0xB0 and 0xFB
BinaryListWriter_1_1_new_length_prefixed(buffer) ==
    SequenceWriter("list", BinaryContainerWriter_1_1_new_length_prefixed(176, 251, buffer))

\* BinarySExpWriter_1_1::new_delimited, DELIMITED_SEXP_OPCODE 0xF2
BinarySExpWriter_1_1_new_delimited(buffer) ==
    SequenceWriter("sexp", BinaryContainerWriter_1_1_new_delimited(242, buffer))

\* BinarySExpWriter_1_1::new_length_prefixed, type codes 0xC0 and 0xFC
BinarySExpWriter_1_1_new_length_prefixed(buffer) ==
    SequenceWriter("sexp", BinaryContainerWriter_1_1_new_length_prefixed(192, 252, buffer))

\* BinaryStructWriter_1_1 { flex_uint_encoding, container_writer }
StructWriter(flex_uint_encoding, made) ==
    Writing([container |-> "struct",
             flex_uint_encoding |-> flex_uint_encoding,
             container_writer |-> made.self],
            made.buffer)

\* BinaryStructWriter_1_1::new_length_prefixed, type codes 0xD0 and 0xFD
BinaryStructWriter_1_1_new_length_prefixed(buffer) ==
    StructWriter(TRUE, BinaryContainerWriter_1_1_new_length_prefixed(208, 253, buffer))

\* BinaryStructWriter_1_1::new_delimited, DELIMITED_STRUCT_OPCODE 0xF3
BinaryStructWriter_1_1_new_delimited(buffer) ==
    StructWriter(FALSE, BinaryContainerWriter_1_1_new_delimited(243, buffer))

\* BinaryStructWriter_1_1::fields_buffer
fields_buffer(self, buffer) == target_buffer(self.container_writer.encoder, buffer)

\* The struct writer and the buffer of its parent once the fields buffer
\* holds `bytes`.
with_fields_buffer(self, buffer, bytes) ==
    Writing([self EXCEPT !.container_writer =
                            with_target_buffer(self.container_writer, buffer, bytes).self],
            with_target_buffer(self.container_writer, buffer, bytes).buffer)

\* An encode_field_name that goes back to FlexUInt names after a name that
\* needed a FlexSym.
encode_field_name_switching_back(self, buffer, name_ref) ==
    CASE self.flex_uint_encoding /\ name_ref.symbol = "SymbolId" /\ name_ref.sid > 0 ->
            with_fields_buffer(self, buffer,
                               FlexUInt_write(fields_buffer(self, buffer), name_ref.sid))
      [] self.flex_uint_encoding ->
            with_fields_buffer(self, buffer,
                FlexSym_encode_symbol(Append(fields_buffer(self, buffer), 1), name_ref))
      [] OTHER ->
            with_fields_buffer(self, buffer,
                               FlexSym_encode_symbol(fields_buffer(self, buffer), name_ref))

\* <BinaryStructWriter_1_1 as FieldEncoder>::encode_field_name
encode_field_name(self, buffer, name_ref) ==
    CASE self.flex_uint_encoding /\ name_ref.symbol = "SymbolId" /\ name_ref.sid > 0 ->
            with_fields_buffer(self, buffer,
                               FlexUInt_write(fields_buffer(self, buffer), name_ref.sid))
      [] self.flex_uint_encoding ->
            with_fields_buffer([self EXCEPT !.flex_uint_encoding = FALSE], buffer,
                FlexSym_encode_symbol(Append(fields_buffer(self, buffer), 1), name_ref))
      [] OTHER ->
            with_fields_buffer(self, buffer,
                               FlexSym_encode_symbol(fields_buffer(self, buffer), name_ref))

\* SequenceWriter::write of a list or s-expression writer
sequence_write(self, buffer, value) ==
    Writing([self EXCEPT !.container_writer =
                            container_write(self.container_writer, buffer, value).self],
            container_write(self.container_writer, buffer, value).buffer)

\* StructWriter::write: the name, then the value.
struct_write(self, buffer, name, value) ==
    sequence_write(encode_field_name(self, buffer, name).self,
                   encode_field_name(self, buffer, name).buffer, value)

\* SequenceWriter::close of a list or s-expression writer
sequence_close(self, buffer) == container_end(self.container_writer, buffer)

\* <BinaryStructWriter_1_1 as StructWriter>::close; a delimited struct ends
\* with the FlexSym escape 0x01.
struct_close(self, buffer) ==
    IF self.container_writer.encoder.kind = "Delimited"
    THEN container_end(self.container_writer, Append(fields_buffer(self, buffer), 1))
    ELSE container_end(self.container_writer, buffer)

\* The encoded values a value writer writes: of one byte, a
\* string of fifteen bytes with its opcode, and a string of 127 bytes with
\* its opcode and its length.
EncodedValues ==
    { <<96>>, [i \in 1..16 |-> IF i = 1 THEN 159 ELSE 97],
      [i \in 1..130 |-> IF i = 1 THEN 249 ELSE IF i = 2 THEN 1 ELSE IF i = 3 THEN 2 ELSE 97] }

\* The field names: symbol IDs, $0, inline text, the empty text.
RawFieldNames == { SymbolId(100), SymbolId(0), Text(<<97>>), Text(<<>>) }

InitWriting ==
    /\ ExpandingIdle
    /\ SerializingIdle
    /\ ReadingIdle
    /\ BinaryIdle
    /\ MacrosIdle
    /\ ComparingIdle
    /\ SequencesIdle
    /\ parent_buffer \in {<<>>, <<96>>}
    /\ parent_before = parent_buffer
    /\ the_writer = <<>>
    /\ writes = <<>>
    /\ closed = FALSE

\* The writer `made` was made on the parent buffer.
Made(made) ==
    /\ the_writer' = <<made.self>>
    /\ parent_buffer' = made.buffer
    /\ UNCHANGED <<expanding, serializing, sequences, reading, binary, macros, comparing,
                   parent_before, writes, closed>>

\* new_delimited of a list, s-expression or struct writer
NewDelimited ==
    /\ the_writer = <<>>
    /\ \/ Made(BinaryListWriter_1_1_new_delimited(parent_buffer))
       \/ Made(BinarySExpWriter_1_1_new_delimited(parent_buffer))
       \/ Made(BinaryStructWriter_1_1_new_delimited(parent_buffer))

\* new_length_prefixed of a list, s-expression or struct writer
NewLengthPrefixed ==
    /\ the_writer = <<>>
    /\ \/ Made(BinaryListWriter_1_1_new_length_prefixed(parent_buffer))
       \/ Made(BinarySExpWriter_1_1_new_length_prefixed(parent_buffer))
       \/ Made(BinaryStructWriter_1_1_new_length_prefixed(parent_buffer))

\* writer.write(value) of a list or s-expression writer
WriteValue ==
    /\ the_writer # <<>>
    /\ ~closed
    /\ the_writer[1].container # "struct"
    /\ Len(writes) < MaxWrites
    /\ \E value \in EncodedValues :
        /\ the_writer' = <<sequence_write(the_writer[1], parent_buffer, value).self>>
        /\ parent_buffer' = sequence_write(the_writer[1], parent_buffer, value).buffer
        /\ writes' = Append(writes, [name |-> <<>>, value |-> value])
    /\ UNCHANGED <<expanding, serializing, sequences, reading, binary, macros, comparing,
                   parent_before, closed>>

\* writer.write(name, value) of a struct writer
WriteField ==
    /\ the_writer # <<>>
    /\ ~closed
    /\ the_writer[1].container = "struct"
    /\ Len(writes) < MaxWrites
    /\ \E name \in RawFieldNames, value \in EncodedValues :
        /\ the_writer' = <<struct_write(the_writer[1], parent_buffer, name, value).self>>
        /\ parent_buffer' = struct_write(the_writer[1], parent_buffer, name, value).buffer
        /\ writes' = Append(writes, [name |-> <<name>>, value |-> value])
    /\ UNCHANGED <<expanding, serializing, sequences, reading, binary, macros, comparing,
                   parent_before, closed>>

\* writer.close()
CloseWriter ==
    /\ the_writer # <<>>
    /\ ~closed
    /\ parent_buffer' = IF the_writer[1].container = "struct"
                        THEN struct_close(the_writer[1], parent_buffer)
                        ELSE sequence_close(the_writer[1], parent_buffer)
    /\ closed' = TRUE
    /\ UNCHANGED <<expanding, serializing, sequences, reading, binary, macros, comparing,
                   parent_before, the_writer, writes>>

NextWriting ==
    \/ NewDelimited
    \/ NewLengthPrefixed
    \/ WriteValue
    \/ WriteField
    \/ CloseWriter

SpecWriting == InitWriting /\ [][NextWriting]_vars

IsLengthPrefixed == the_writer # <<>> /\ the_writer[1].container_writer.encoder.kind = "LengthPrefixed"
IsDelimited == the_writer # <<>> /\ the_writer[1].container_writer.encoder.kind = "Delimited"
IsStructWriter == the_writer # <<>> /\ the_writer[1].container = "struct"

\* The first byte of a container of n bytes of children, and the bytes of
\* its length.
LengthPrefix(type_code, flex_len_type_code, n) ==
    IF n <= 15 THEN <<type_code + n>>
    ELSE <<flex_len_type_code>> \o FlexUInt_write(<<>>, n)

\* The bytes of the values written, in the order they were written.
ValuesWritten == Flatten([i \in DOMAIN writes |-> writes[i].value])

\* The children a length-prefixed writer holds.
ChildBytes == the_writer[1].container_writer.encoder.child_values_buffer

\* C36: a length-prefixed container writer appends nothing to the buffer of
\* its parent until end(); end() appends the opcode, which is type_code | n
\* when the n bytes of the children are at most 15 and else is
\* flex_len_type_code followed by the FlexUInt of n, and then the n bytes of
\* the children in the order they were written.
C36_LengthPrefixedWritesAtTheEnd ==
    IsLengthPrefixed =>
        /\ ~closed => parent_buffer = parent_before
        /\ ~IsStructWriter => ChildBytes = ValuesWritten
        /\ closed =>
            parent_buffer =
                parent_before
                    \o LengthPrefix(the_writer[1].container_writer.encoder.type_code,
                                    the_writer[1].container_writer.encoder.flex_len_type_code,
                                    Len(ChildBytes))
                    \o ChildBytes

\* A length-prefixed container of more than 15 bytes of children was closed.
C36_Witness ==
    /\ IsLengthPrefixed
    /\ closed
    /\ Len(ChildBytes) > 15
    /\ Len(writes) > 1

\* The start opcode of a delimited container.
StartOpcode(container) ==
    CASE container = "list" -> 241
      [] container = "sexp" -> 242
      [] container = "struct" -> 243

\* The FlexSym of every name, each followed by its value.
FlexSymNamedFields ==
    Flatten([i \in DOMAIN writes |->
                FlexSym_encode_symbol(<<>>, writes[i].name[1]) \o writes[i].value])

\* C37: a delimited container writer pushes its start opcode (0xF1 of a list,
\* 0xF2 of an s-expression, 0xF3 of a struct) to the buffer of its parent when
\* it is made, writes every child to that buffer in the order of the calls,
\* and appends the end opcode 0xF0 once when it is closed; a delimited struct
\* appends the FlexSym escape 0x01 just before that 0xF0.
C37_DelimitedWritesThrough ==
    IsDelimited =>
        parent_buffer =
            parent_before
                \o <<StartOpcode(the_writer[1].container)>>
                \o (IF IsStructWriter THEN FlexSymNamedFields ELSE ValuesWritten)
                \o (IF closed /\ IsStructWriter THEN <<1>> ELSE <<>>)
                \o (IF closed THEN <<240>> ELSE <<>>)

\* A delimited struct with fields was closed.
C37_Witness ==
    /\ IsDelimited
    /\ IsStructWriter
    /\ Len(writes) > 1
    /\ closed

\* A delimited list with values was closed.
DelimitedListClosed ==
    /\ IsDelimited
    /\ the_writer[1].container = "list"
    /\ Len(writes) > 1
    /\ closed

\* The name is a symbol ID other than $0.
IsNonZeroSymbolId(name) == name.symbol = "SymbolId" /\ name.sid # 0

\* The fields written whose name is not a symbol ID other than $0.
NeedFlexSym == {i \in DOMAIN writes : ~IsNonZeroSymbolId(writes[i].name[1])}

\* The name of the i-th field as a length-prefixed struct holds it: a
\* FlexUInt before the first name that needs a FlexSym, a FlexSym from then
\* on, and the byte 0x01 before the first FlexSym.
FieldNameBytes(i) ==
    IF \A j \in NeedFlexSym : i < j
    THEN FlexUInt_write(<<>>, writes[i].name[1].sid)
    ELSE IF \A j \in NeedFlexSym : i <= j
    THEN <<1>> \o FlexSym_encode_symbol(<<>>, writes[i].name[1])
    ELSE FlexSym_encode_symbol(<<>>, writes[i].name[1])

MaxElements == 2   \* elements, entries or fields of a container handed to the serializer

\* TUNNELED_DECIMAL_TYPE_NAME and TUNNELED_TIMESTAMP_TYPE_NAME
TUNNELED_DECIMAL_TYPE_NAME == <<"$", "d", "e", "c", "i", "m", "a", "l">>
TUNNELED_TIMESTAMP_TYPE_NAME == <<"$", "t", "i", "m", "e", "s", "t", "a", "m", "p">>

\* What a primitive value holds: a bool, an integer, a float, a text, bytes,
\* a decimal or a timestamp, nothing.
Flag(v) == [flag |-> v]
Integer(v) == [int |-> v]
Float(v) == [float |-> v]
AText(v) == [text |-> v]
Blob(v) == [bytes |-> v]
Token(v) == [token |-> v]
Nothing == [nothing |-> TRUE]

\* The values of the serde data model.
Primitive(kind, v) == [kind |-> kind, v |-> v]
SerdeNone == [kind |-> "none"]
SerdeUnit == [kind |-> "unit"]
SerdeSome(of) == [kind |-> "some", of |-> of]
UnitStruct(name) == [kind |-> "unit_struct", name |-> name]
UnitVariant(variant) == [kind |-> "unit_variant", variant |-> variant]
NewtypeStruct(name, of) == [kind |-> "newtype_struct", name |-> name, of |-> of]
NewtypeVariant(variant, of) == [kind |-> "newtype_variant", of |-> of, variant |-> variant]
Elements(kind, name, elems) == [kind |-> kind, name |-> name, items |-> elems]
Entry(key, value) == [key |-> key, value |-> value]
NamedField(name, value) == [name |-> name, value |-> value]

\* The Ion value a value writer wrote, with the annotations it was given.
Written(annotations, type, v) == [annotations |-> annotations, type |-> type, v |-> v]

IntegerKinds == {"i8", "u8", "i16", "u16", "i32", "u32", "i64", "u64"}
FloatKinds == {"f32", "f64"}

\* i64::to_string and those of the other integers
RECURSIVE digits_to_string(_)
digits_to_string(v) ==
    IF v < 10 THEN <<(<<"0", "1", "2", "3", "4", "5", "6", "7", "8", "9">>)[v + 1]>>
    ELSE Append(digits_to_string(v \div 10),
                (<<"0", "1", "2", "3", "4", "5", "6", "7", "8", "9">>)[(v % 10) + 1])

int_to_string(v) == IF v < 0 THEN <<"-">> \o digits_to_string(0 - v) ELSE digits_to_string(v)

\* f64::to_string and f32::to_string, of the floats of the model
float_to_string(v) ==
    CASE v = "1.5" -> <<"1", ".", "5">>
      [] v = "2" -> <<"2">>
      [] v = "nan" -> <<"N", "a", "N">>

\* key_must_be_a_string
key_must_be_a_string == Failure("Ion does not support non-string keys for maps")

\* A MapKeySerializer that turns a bool into a text as well.
RECURSIVE map_key_serialize_with_bool(_)
map_key_serialize_with_bool(key) ==
    CASE key.kind = "str" -> Ok(key.v.text)
      [] key.kind = "unit_variant" -> Ok(key.variant)
      [] key.kind = "newtype_struct" -> map_key_serialize_with_bool(key.of)
      [] key.kind = "bool" -> Ok(IF key.v.flag THEN <<"t", "r", "u", "e">> ELSE <<"f", "a", "l", "s", "e">>)
      [] key.kind \in IntegerKinds -> Ok(int_to_string(key.v.int))
      [] key.kind \in FloatKinds -> Ok(float_to_string(key.v.float))
      [] key.kind = "char" -> Ok(<<key.v.char>>)
      [] key.kind = "some" -> map_key_serialize_with_bool(key.of)
      [] OTHER -> key_must_be_a_string

\* key.serialize(MapKeySerializer {}): <MapKeySerializer as ser::Serializer>
RECURSIVE map_key_serialize(_)
map_key_serialize(key) ==
    CASE key.kind = "str" -> Ok(key.v.text)                                 \* serialize_str
      [] key.kind = "unit_variant" -> Ok(key.variant)                  \* serialize_unit_variant
      [] key.kind = "newtype_struct" -> map_key_serialize(key.of)      \* serialize_newtype_struct
      [] key.kind = "bool" -> key_must_be_a_string                     \* serialize_bool
      [] key.kind \in IntegerKinds -> Ok(int_to_string(key.v.int))         \* serialize_i8 .. serialize_u64
      [] key.kind \in FloatKinds -> Ok(float_to_string(key.v.float))         \* serialize_f32, serialize_f64
      [] key.kind = "char" -> Ok(<<key.v.char>>)                            \* serialize_char
      [] key.kind = "bytes" -> key_must_be_a_string                    \* serialize_bytes
      [] key.kind = "none" -> key_must_be_a_string                     \* serialize_none
      [] key.kind = "some" -> map_key_serialize(key.of)                \* serialize_some
      [] key.kind = "unit" -> key_must_be_a_string                     \* serialize_unit
      [] key.kind = "unit_struct" -> key_must_be_a_string              \* serialize_unit_struct
      [] key.kind = "newtype_variant" -> key_must_be_a_string          \* serialize_newtype_variant
      [] key.kind = "seq" -> key_must_be_a_string                      \* serialize_seq
      [] key.kind = "tuple" -> key_must_be_a_string                    \* serialize_tuple
      [] key.kind = "tuple_struct" -> key_must_be_a_string             \* serialize_tuple_struct
      [] key.kind = "tuple_variant" -> key_must_be_a_string            \* serialize_tuple_variant
      [] key.kind = "map" -> key_must_be_a_string                      \* serialize_map
      [] key.kind = "struct" -> key_must_be_a_string                   \* serialize_struct
      [] key.kind = "struct_variant" -> key_must_be_a_string           \* serialize_struct_variant

\* ValueSerializer::new
ValueSerializer_new == [annotations |-> <<>>]

\* The first error of the results, or the values of all of them.
all_ok(results) ==
    IF \E i \in DOMAIN results : results[i].r = "Err"
    THEN results[CHOOSE i \in DOMAIN results :
                    /\ results[i].r = "Err"
                    /\ \A j \in 1..(i - 1) : results[j].r # "Err"]
    ELSE Ok([i \in DOMAIN results |-> results[i].value])

\* The list writer `annotations` was given to, once every element is
\* written and the list is closed.
written_list(annotations, elements) ==
    IF all_ok(elements).r = "Err" THEN all_ok(elements)
    ELSE Ok(Written(annotations, "list", [elements |-> all_ok(elements).value]))

\* The struct writer `annotations` was given to, once every field is
\* written and the struct is closed.
written_struct(annotations, fields) ==
    IF all_ok(fields).r = "Err" THEN all_ok(fields)
    ELSE Ok(Written(annotations, "struct", [fields |-> all_ok(fields).value]))

\* A field of a struct: the name, then the value.
written_field(name, value) ==
    IF name.r = "Err" THEN name
    ELSE IF value.r = "Err" THEN value
    ELSE Ok([name |-> name.value, value |-> value.value])

\* value.serialize(self) of a ValueSerializer: <ValueSerializer as ser::Serializer>,
\* and SeqWriter and MapWriter for the elements, the entries and the fields.
RECURSIVE value_serialize(_, _)
value_serialize(self, value) ==
    CASE value.kind = "bool" -> Ok(Written(<<>>, "bool", value.v))                 \* serialize_bool
      [] value.kind \in IntegerKinds -> Ok(Written(self.annotations, "int", value.v))  \* serialize_i8 .. serialize_u64
      [] value.kind = "f32" -> Ok(Written(<<>>, "float", value.v))                 \* serialize_f32
      [] value.kind = "f64" -> Ok(Written(self.annotations, "float", value.v))     \* serialize_f64
      [] value.kind = "char" -> Ok(Written(self.annotations, "string", AText(<<value.v.char>>)))   \* serialize_char
      [] value.kind = "str" -> Ok(Written(self.annotations, "string", value.v))    \* serialize_str
      [] value.kind = "bytes" -> Ok(Written(self.annotations, "blob", value.v))    \* serialize_bytes
      [] value.kind = "none" -> Ok(Written(self.annotations, "null", Nothing))        \* serialize_none
      [] value.kind = "some" -> value_serialize(self, value.of)                    \* serialize_some
      [] value.kind = "unit" -> Ok(Written(self.annotations, "null", Nothing))        \* serialize_unit
      [] value.kind = "unit_struct" -> Ok(Written(self.annotations, "symbol", AText(value.name)))      \* serialize_unit_struct
      [] value.kind = "unit_variant" -> Ok(Written(self.annotations, "symbol", AText(value.variant)))  \* serialize_unit_variant
      [] value.kind = "newtype_struct" ->                                          \* serialize_newtype_struct
            IF value.name = TUNNELED_TIMESTAMP_TYPE_NAME
            THEN Ok(Written(self.annotations, "timestamp", value.of.v))
            ELSE IF value.name = TUNNELED_DECIMAL_TYPE_NAME
            THEN Ok(Written(<<>>, "decimal", value.of.v))
            ELSE value_serialize(self, value.of)
      [] value.kind = "newtype_variant" ->                                         \* serialize_newtype_variant
            value_serialize([self EXCEPT !.annotations = Append(@, value.variant)], value.of)
      [] value.kind = "seq" ->                                                     \* serialize_seq
            written_list(<<>>,
                [i \in DOMAIN value.items |-> value_serialize(ValueSerializer_new, value.items[i])])
      [] value.kind = "tuple" ->                                                   \* serialize_tuple
            written_list(self.annotations,
                [i \in DOMAIN value.items |-> value_serialize(ValueSerializer_new, value.items[i])])
      [] value.kind \in {"tuple_struct", "tuple_variant"} ->        \* serialize_tuple_struct, serialize_tuple_variant
            written_list(Append(self.annotations, value.name),
                [i \in DOMAIN value.items |-> value_serialize(ValueSerializer_new, value.items[i])])
      [] value.kind = "map" ->                                                     \* serialize_map
            written_struct(<<>>,
                [i \in DOMAIN value.items |->
                    written_field(map_key_serialize(value.items[i].key),
                                  value_serialize(ValueSerializer_new, value.items[i].value))])
      [] value.kind = "struct" ->                                                  \* serialize_struct
            written_struct(<<>>,
                [i \in DOMAIN value.items |->
                    written_field(Ok(value.items[i].name),
                                  value_serialize(ValueSerializer_new, value.items[i].value))])
      [] value.kind = "struct_variant" ->                                          \* serialize_struct_variant
            written_struct(Append(self.annotations, value.name),
                [i \in DOMAIN value.items |->
                    written_field(Ok(value.items[i].name),
                                  value_serialize(ValueSerializer_new, value.items[i].value))])

\* The names of types, variants and fields.
TypeName == <<"T">>
VariantNames == {<<"A">>, <<"B">>}
FieldKeys == {<<"k">>}

\* The values that are not made of other values.
SerdeScalars ==
    {Primitive("bool", Flag(TRUE)), Primitive("f32", Float("1.5")), Primitive("f64", Float("nan")),
     Primitive("f64", Float("2")), Primitive("char", [char |-> "c"]), Primitive("str", AText(<<"a", "b">>)),
     Primitive("bytes", Blob(<<1, 2>>)), SerdeNone, SerdeUnit, UnitStruct(TypeName),
     UnitVariant(<<"A">>)}
        \cup {Primitive(kind, Integer(12)) : kind \in IntegerKinds}
        \cup {Primitive("i8", Integer(0 - 1)), Primitive("i64", Integer(0)), Primitive("u64", Integer(705))}

\* A decimal and a timestamp, as their Serialize hands them over.
Tunneled ==
    {NewtypeStruct(TUNNELED_DECIMAL_TYPE_NAME, Primitive("decimal", Token("1.5"))),
     NewtypeStruct(TUNNELED_TIMESTAMP_TYPE_NAME, Primitive("timestamp", Token("2024T")))}

\* The elements of the containers, and the keys of the maps.
ElementValues == {Primitive("bool", Flag(TRUE)), Primitive("i64", Integer(12)), NewtypeVariant(<<"A">>, Primitive("bool", Flag(TRUE)))}
KeyValues == {Primitive("str", AText(<<"a", "b">>)), Primitive("i8", Integer(0 - 1)), Primitive("bool", Flag(TRUE))}

SerdeSequences ==
    {Elements(kind, <<>>, elems) : kind \in {"seq", "tuple"}, elems \in SeqsUpTo(ElementValues, MaxElements)}
        \cup {Elements("tuple_struct", TypeName, elems) : elems \in SeqsUpTo(ElementValues, MaxElements)}
        \cup {Elements("tuple_variant", variant, elems) :
                variant \in VariantNames, elems \in SeqsUpTo(ElementValues, MaxElements)}

SerdeMaps ==
    {Elements("map", <<>>, elems) :
        elems \in SeqsUpTo({Entry(key, value) : key \in KeyValues, value \in ElementValues},
                           MaxElements)}

SerdeStructs ==
    {Elements("struct", TypeName, elems) :
        elems \in SeqsUpTo({NamedField(key, value) : key \in FieldKeys, value \in ElementValues},
                           MaxElements)}
        \cup {Elements("struct_variant", variant, elems) :
                variant \in VariantNames,
                elems \in SeqsUpTo({NamedField(key, value) : key \in FieldKeys, value \in ElementValues},
                                   MaxElements)}

\* A value in a Some, in a newtype struct, in a newtype variant.
Wrappers(inner) ==
    {SerdeSome(of) : of \in inner}
        \cup {NewtypeStruct(TypeName, of) : of \in inner}
        \cup {NewtypeVariant(variant, of) : variant \in VariantNames, of \in inner}

Unwrapped == SerdeScalars \cup SerdeSequences \cup SerdeMaps \cup SerdeStructs

\* The values handed to the ValueSerializer, and the keys handed to the
\* MapKeySerializer.
SerdeValues ==
    Unwrapped \cup Tunneled \cup Wrappers(Unwrapped \cup Tunneled)
        \cup Wrappers(Wrappers(SerdeScalars \cup Tunneled))

SerdeKeys == Unwrapped \cup Wrappers(Unwrapped) \cup Wrappers(Wrappers(SerdeScalars))

InitSerde ==
    /\ ExpandingIdle
    /\ ReadingIdle
    /\ BinaryIdle
    /\ MacrosIdle
    /\ ComparingIdle
    /\ SequencesIdle
    /\ WritingIdle
    /\ \/ serde_role = "value" /\ \E value \in SerdeValues : serde_input = <<value>>
       \/ serde_role = "key" /\ \E key \in SerdeKeys : serde_input = <<key>>
    /\ serialized = <<>>

\* value.serialize(ValueSerializer::new(value_writer, is_human_readable))
SerializeValue ==
    /\ serde_role = "value"
    /\ serialized = <<>>
    /\ serialized' = <<value_serialize(ValueSerializer_new, serde_input[1])>>
    /\ UNCHANGED <<expanding, reading, binary, macros, comparing, sequences, writing,
                   serde_role, serde_input>>

\* The key.serialize(mk_serializer) of MapWriter::serialize_key
SerializeKey ==
    /\ serde_role = "key"
    /\ serialized = <<>>
    /\ serialized' = <<map_key_serialize(serde_input[1])>>
    /\ UNCHANGED <<expanding, reading, binary, macros, comparing, sequences, writing,
                   serde_role, serde_input>>

NextSerde == SerializeValue \/ SerializeKey

SpecSerde == InitSerde /\ [][NextSerde]_vars

\* The key is a string, a char, an integer, a float or a unit variant, or
\* one of those in newtype structs and Somes.
RECURSIVE IsTextKey(_)
IsTextKey(key) ==
    \/ key.kind \in {"str", "char", "unit_variant"} \cup IntegerKinds \cup FloatKinds
    \/ key.kind \in {"newtype_struct", "some"} /\ IsTextKey(key.of)

KeyRefused ==
    /\ serde_role = "key"
    /\ serde_input = <<NewtypeStruct(TypeName, Primitive("bool", Flag(TRUE)))>>
    /\ serialized = <<key_must_be_a_string>>

\* The names of the newtype variants the value is in, from the outside in,
\* and the name a tuple struct, a tuple variant or a struct variant is
\* written with.
RECURSIVE VariantNamesOf(_)
VariantNamesOf(value) ==
    CASE value.kind = "newtype_variant" -> <<value.variant>> \o VariantNamesOf(value.of)
      [] value.kind = "some" -> VariantNamesOf(value.of)
      [] value.kind = "newtype_struct"
            /\ value.name \notin {TUNNELED_DECIMAL_TYPE_NAME, TUNNELED_TIMESTAMP_TYPE_NAME} ->
            VariantNamesOf(value.of)
      [] value.kind \in {"tuple_struct", "tuple_variant", "struct_variant"} -> <<value.name>>
      [] OTHER -> <<>>

\* What the value is written as without its annotations.
Unannotated(result) ==
    IF result.r = "Err" THEN result ELSE Ok([result.value EXCEPT !.annotations = <<>>])

\* C40: serialize_newtype_variant(variant, value) writes the value with the
\* name of the variant as its annotation, whatever kind of value it is; the
\* names of nested newtype variants are all kept, in order.
C40_NewtypeVariantAnnotatesItsValue ==
    (serde_role = "value" /\ serialized # <<>> /\ serde_input[1].kind = "newtype_variant") =>
        /\ Unannotated(serialized[1])
                = Unannotated(value_serialize(ValueSerializer_new, serde_input[1].of))
        /\ serialized[1].r = "Ok" =>
                serialized[1].value.annotations = VariantNamesOf(serde_input[1])

====
